---------------------------- MODULE Spec2Model ----------------------------
(***************************************************************************)
(* A model of the real-time control fabric of the ml-stutter looper:       *)
(*   - the lock-free SPSC ring buffer (src/utils/trace.cpp, spsc_queue.h), *)
(*   - TimeKeeper's sample counter and tick grid (src/unnamed/part_010),   *)
(*   - the STUTTER engine (src/include/audio_stutter.h) and its controller *)
(*     (src/unnamed/part_013),                                             *)
(*   - the CHOKE engine (src/include/effect_manager.h) and its controller  *)
(*     (src/src/choke_controller.cpp),                                     *)
(*   - the command dispatch of the control loop (src/unnamed/part_012).    *)
(*                                                                         *)
(* Two contexts run: the audio interrupt, which executes one whole audio   *)
(* block (AudioTimeKeeper::update, then every engine's update) without     *)
(* being preempted, and the control thread, which the audio interrupt can  *)
(* preempt between any two of its accesses to shared memory.  A handler of *)
(* the control thread is therefore a sequence of steps, one per access to  *)
(* memory shared with the audio interrupt; ctl holds the steps that are    *)
(* left of the handler being executed.                                     *)
(***************************************************************************)
EXTENDS Integers, Sequences, FiniteSets, TLC

VARIABLES
    \* ---- SPSCQueue<T, SIZE> ----
    writeIdx,       \* volatile uint32_t writeIdx
    readIdx,        \* volatile uint32_t readIdx
    buffer,         \* T buffer[SIZE]; a T is two machine words [lo, hi]
    prod,           \* the producer's position in push and its locals
    cons,           \* the consumer's position in pop and its locals
    pushed,         \* ghost: the items push accepted, in order
    popped,         \* ghost: the items pop returned, in order
    clockQueue,     \* MidiIO: SPSCQueue<uint32_t, 256> clockQueue; an item
                    \*   stands for a tick and holds, as a ghost, whether
                    \*   the transport was running when it arrived
    eventQueue,     \* MidiIO: SPSCQueue<MidiEvent, 32> eventQueue
    transportRunning, \* MidiIO: volatile bool transportRunning
    m_currentGain,  \* AudioEffectChoke::m_currentGain, in units of
                    \*   1 / GAIN_ONE
    ramp,           \* AudioEffectChoke::update() from the gain increment on:
                    \*   its position, its locals and, as a ghost, the gains
                    \*   it applied to the left block
    lastPush,       \* ghost: the last finished push: its result and the
                    \*        number of queued items when it compared indices
    \* ---- TimeKeeper ----
    s_samplePosition,
    s_tickInBeat,
    s_beatNumber,
    s_transportState,
    tickCalls,      \* ghost: the calls of incrementTick since reset()
    s_beatFlag,
    wrapsSincePoll, \* ghost: the beats begun since the last pollBeatFlag()
    s_samplesPerBeat,
    globalQuantization,
    \* ---- AudioEffectStutter / StutterController ----
    stutter,        \* the engine's fields
    m_funcHeld,     \* StutterController::m_funcHeld
    m_stutterHeld,  \* StutterController::m_stutterHeld
    stutterEnableKind, \* what CommandType::STUTTER_ENABLE denotes
    \* ---- AudioEffectChoke ----
    choke,
    \* ---- AudioEffectFreeze ----
    freeze,         \* the engine's fields, its buffer, and ghosts
    \* ---- DisplayManager, DisplayIO ----
    m_lastActivatedEffect,
    shown,          \* the bitmap DisplayIO was last told to show
    engagedOrder,   \* ghost: the engaged effects, the last engaged last
    \* ---- EffectManager ----
    s_effects,      \* EffectEntry s_effects[MAX_EFFECTS]
    s_numEffects,
    \* ---- control thread ----
    ctl,            \* the steps left of the handler in execution
    loc,            \* the handler's locals
    \* ---- ghosts of the audio/control history ----
    hist            \* ghost: what the last step did

ivars == <<clockQueue, eventQueue, transportRunning>>
gvars == <<m_currentGain, ramp>>
\* the queues and the gain ramp: what the handlers of the effects, the
\* TimeKeeper and the scheduled checks of the engines leave alone
qvars == <<writeIdx, readIdx, buffer, prod, cons, pushed, popped, lastPush,
           ivars, gvars>>
tvars == <<s_samplePosition, s_tickInBeat, s_beatNumber, s_transportState,
           tickCalls, s_beatFlag, wrapsSincePoll, s_samplesPerBeat,
           globalQuantization>>
svars == <<stutter, m_funcHeld, m_stutterHeld, stutterEnableKind>>
cvars == <<choke, freeze>>
kvars == <<ctl, loc, hist>>
mvars == <<m_lastActivatedEffect, shown, engagedOrder, s_effects,
           s_numEffects>>
vars  == <<qvars, tvars, svars, cvars, kvars, mvars>>

-----------------------------------------------------------------------------
(* Bounds of the model                                                      *)

MaxPush == 5        \* items the producer offers to the queue
MaxBlocks == 5      \* audio blocks a behaviour runs
StartBlocks == 10   \* audio blocks run before the behaviour starts
MaxGridBlocks == 45 \* audio blocks a behaviour over one grid step runs
MaxPreempt == 2     \* audio blocks that preempt one handler in it
MaxPressBlocks == 2 \* audio blocks during which it receives presses
GridStart == 1000   \* the sample position such a behaviour starts at
MaxTicks == 121     \* calls of incrementTick after a reset
MaxSyncTicks == 30  \* calls of incrementTick where the tempo is followed
MaxSyncBlocks == 4  \* audio blocks where the tempo is followed
MaxWraps == 2       \* beats counted between two calls of pollBeatFlag
MaxScheduleBlocks == 3  \* audio blocks run over the scheduled samples
MaxQueued == 2      \* items waiting in a queue of MidiIO
MaxLoopTicks == 26  \* ticks the control loop counts after a START
MaxReleaseBlocks == 12  \* audio blocks run over a quantized length of CHOKE
MaxQueryPos == 88217    \* the last sample position of the queries: one
                        \* bar of 4 * 22050 samples and its grace period
SampleSteps == {1, 10000, 12000}    \* arguments of incrementSamples
QueryTempos == {8000, 22050}    \* samples per beat set before the queries

Min(a, b) == IF a < b THEN a ELSE b
Max(a, b) == IF a > b THEN a ELSE b

\* The indices are uint32_t and wrap modulo 2^32, a multiple of SIZE.  The
\* integers of the model checker stop below 2^31: the model wraps the indices
\* modulo 2^30, the largest power of two they hold.
IndexModulus == 1073741824

-----------------------------------------------------------------------------
(* SPSCQueue<T, SIZE>                                                       *)

SIZE == 4           \* SPSCQueue<int, 4> of the capacity test

capacity == SIZE - 1

\* index & (SIZE - 1), SIZE a power of two
Mask(i) == i % SIZE

\* The value the producer pushes as its k-th item: both words carry k, so a
\* slot read while half written shows as lo # hi.
Item(k) == [lo |-> k, hi |-> k]

\* Items made visible by a published writeIdx and not yet released by a
\* published readIdx.
Queued == Len(pushed) - Len(popped)

\* The gain 1.0f.  Gains are counted in units of 1 / 1323: FADE_SAMPLES is
\* (3.0f / 1000.0f) * 44100.0f = 132.3 = FADE_SAMPLES_X10 / 10, so that the
\* increment of a fade between 0.0f and 1.0f is 10 units.
GAIN_ONE == 1323
FADE_SAMPLES_X10 == 1323

\* update() outside its gain ramp
NoRamp == [channel |-> "none", i |-> 0, gainIncrement |-> 0, left |-> <<>>,
           applied |-> -1]

QInit ==
    /\ \E start \in {0, IndexModulus - 2} :
          /\ writeIdx = start
          /\ readIdx = start
    /\ buffer = [i \in 0..(SIZE - 1) |-> Item(0)]
    /\ prod = [pc |-> "idle", current_write |-> 0, next_write |-> 0, n |-> 0]
    /\ cons = [pc |-> "idle", current_read |-> 0, lo |-> 0, hi |-> 0]
    /\ pushed = <<>>
    /\ popped = <<>>
    /\ lastPush = [done |-> FALSE, result |-> FALSE, queued |-> 0]
    /\ clockQueue = <<>>
    /\ eventQueue = <<>>
    /\ transportRunning = FALSE
    /\ m_currentGain = GAIN_ONE
    /\ ramp = NoRamp

\* push(): lines 78-79: read the own index, compute the next one
PushCall ==
    /\ prod.pc = "idle"
    /\ prod.n < MaxPush
    /\ prod' = [prod EXCEPT !.pc = "check",
                            !.current_write = writeIdx,
                            !.next_write = (writeIdx + 1) % IndexModulus,
                            !.n = @ + 1]
    /\ UNCHANGED <<writeIdx, readIdx, buffer, cons, pushed, popped, lastPush>>
    /\ UNCHANGED <<ivars, gvars, tvars, svars, cvars, kvars, mvars>>

\* a faulty comparison: the indices compared without the mask
PushIsFullUnmasked(next_write, rd) == next_write = rd

\* a faulty comparison: the queue is called full one item early
PushIsFullEarly(next_write, rd) == Mask(next_write + 1) = Mask(rd)

\* push(): line 85, the comparison that decides "full"
PushIsFull(next_write, rd) == Mask(next_write) = Mask(rd)

\* push(): lines 85-87: read readIdx; full: return false
PushCheck ==
    /\ prod.pc = "check"
    /\ IF PushIsFull(prod.next_write, readIdx)
          THEN /\ prod' = [prod EXCEPT !.pc = "idle"]
               /\ lastPush' = [done |-> TRUE, result |-> FALSE,
                               queued |-> Queued]
          ELSE /\ prod' = [prod EXCEPT !.pc = "storeLo"]
               /\ lastPush' = [done |-> TRUE, result |-> TRUE,
                               queued |-> Queued]
    /\ UNCHANGED <<writeIdx, readIdx, buffer, cons, pushed, popped>>
    /\ UNCHANGED <<ivars, gvars, tvars, svars, cvars, kvars, mvars>>

\* push(): line 90, first word of buffer[current_write & (SIZE-1)] = item
PushStoreLo ==
    /\ prod.pc = "storeLo"
    /\ buffer' = [buffer EXCEPT ![Mask(prod.current_write)].lo = prod.n]
    /\ prod' = [prod EXCEPT !.pc = "storeHi"]
    /\ UNCHANGED <<writeIdx, readIdx, cons, pushed, popped, lastPush>>
    /\ UNCHANGED <<ivars, gvars, tvars, svars, cvars, kvars, mvars>>

\* push(): line 90, second word
PushStoreHi ==
    /\ prod.pc = "storeHi"
    /\ buffer' = [buffer EXCEPT ![Mask(prod.current_write)].hi = prod.n]
    /\ prod' = [prod EXCEPT !.pc = "publish"]
    /\ UNCHANGED <<writeIdx, readIdx, cons, pushed, popped, lastPush>>
    /\ UNCHANGED <<ivars, gvars, tvars, svars, cvars, kvars, mvars>>

\* push(): lines 94-96: writeIdx = next_write; return true
PushPublish ==
    /\ prod.pc = "publish"
    /\ writeIdx' = prod.next_write
    /\ pushed' = Append(pushed, Item(prod.n))
    /\ prod' = [prod EXCEPT !.pc = "idle"]
    /\ UNCHANGED <<readIdx, buffer, cons, popped, lastPush>>
    /\ UNCHANGED <<ivars, gvars, tvars, svars, cvars, kvars, mvars>>

\* pop(): line 111: read the own index
PopCall ==
    /\ cons.pc = "idle"
    /\ cons' = [cons EXCEPT !.pc = "check", !.current_read = readIdx]
    /\ UNCHANGED <<writeIdx, readIdx, buffer, prod, pushed, popped, lastPush>>
    /\ UNCHANGED <<ivars, gvars, tvars, svars, cvars, kvars, mvars>>

\* a faulty comparison: the queue is called empty with one item stored, and
\* not empty with none
PopIsEmptyLate(current_read, wr) == (current_read + 1) % IndexModulus = wr

\* pop(): line 114, the comparison that decides "empty"
PopIsEmpty(current_read, wr) == current_read = wr

\* pop(): lines 114-116: read writeIdx; empty: return false
PopCheck ==
    /\ cons.pc = "check"
    /\ IF PopIsEmpty(cons.current_read, writeIdx)
          THEN cons' = [cons EXCEPT !.pc = "idle"]
          ELSE cons' = [cons EXCEPT !.pc = "loadLo"]
    /\ UNCHANGED <<writeIdx, readIdx, buffer, prod, pushed, popped, lastPush>>
    /\ UNCHANGED <<ivars, gvars, tvars, svars, cvars, kvars, mvars>>

\* pop(): line 119, first word of item = buffer[current_read & (SIZE-1)]
PopLoadLo ==
    /\ cons.pc = "loadLo"
    /\ cons' = [cons EXCEPT !.pc = "loadHi",
                            !.lo = buffer[Mask(cons.current_read)].lo]
    /\ UNCHANGED <<writeIdx, readIdx, buffer, prod, pushed, popped, lastPush>>
    /\ UNCHANGED <<ivars, gvars, tvars, svars, cvars, kvars, mvars>>

\* pop(): line 119, second word
PopLoadHi ==
    /\ cons.pc = "loadHi"
    /\ cons' = [cons EXCEPT !.pc = "publish",
                            !.hi = buffer[Mask(cons.current_read)].hi]
    /\ UNCHANGED <<writeIdx, readIdx, buffer, prod, pushed, popped, lastPush>>
    /\ UNCHANGED <<ivars, gvars, tvars, svars, cvars, kvars, mvars>>

\* pop(): lines 123-125: readIdx = current_read + 1; return true
PopPublish ==
    /\ cons.pc = "publish"
    /\ readIdx' = (cons.current_read + 1) % IndexModulus
    /\ popped' = Append(popped, [lo |-> cons.lo, hi |-> cons.hi])
    /\ cons' = [cons EXCEPT !.pc = "idle"]
    /\ UNCHANGED <<writeIdx, buffer, prod, pushed, lastPush>>
    /\ UNCHANGED <<ivars, gvars, tvars, svars, cvars, kvars, mvars>>

-----------------------------------------------------------------------------
(* TimeKeeper and EffectQuantization                                        *)

AUDIO_BLOCK_SAMPLES == 128
MIDI_PPQN == 24
SAMPLE_RATE == 44100
SyncNum == (MIDI_PPQN * SAMPLE_RATE) \div 800     \* 1323
SyncDen == 1000000 \div 800                       \* 1250
SyncHalfQ == 1623000        \* 1323 * q < 2^31 below this q
SyncWrapQ == 3246385        \* the least q with 1323 * q >= 2^32
SyncWrapRest == 59          \* 1323 * SyncWrapQ - 2^32
BEATS_PER_BAR == 4
MAX_EFFECTS == 4
DEFAULT_SAMPLES_PER_BEAT == 22050
lookaheadOffset == 128

Quantizations == {"QUANT_32", "QUANT_16", "QUANT_8", "QUANT_4"}

\* EffectQuantization::calculateQuantizedDuration (uint32_t division)
calculateQuantizedDuration(quant, spb) ==
    CASE quant = "QUANT_32" -> spb \div 8
      [] quant = "QUANT_16" -> spb \div 4
      [] quant = "QUANT_8"  -> spb \div 2
      [] quant = "QUANT_4"  -> spb
      [] OTHER              -> spb \div 4

\* TimeKeeper::samplesToNextSubdivision: the distance on the tick grid
samplesToNextSubdivision(subdivision, spb, tickInBeat) ==
    LET samplesPerTick == spb \div MIDI_PPQN
        samplesElapsedInBeat == tickInBeat * samplesPerTick
        subdivisionIndex == samplesElapsedInBeat \div subdivision
        nextSubdivisionStart ==
            Min((subdivisionIndex + 1) * subdivision, spb)
    IN  IF subdivision >= spb
           THEN spb - samplesElapsedInBeat
           ELSE nextSubdivisionStart - samplesElapsedInBeat

\* EffectQuantization::samplesToNextQuantizedBoundary
samplesToNextQuantizedBoundary(quant, spb, tickInBeat) ==
    samplesToNextSubdivision(calculateQuantizedDuration(quant, spb), spb,
                             tickInBeat)

\* the distances the handlers compute from the TimeKeeper state they read
SamplesToNext ==
    samplesToNextQuantizedBoundary(globalQuantization, s_samplesPerBeat,
                                   s_tickInBeat)
DurationSamples ==
    calculateQuantizedDuration(globalQuantization, s_samplesPerBeat)

\* A uint32 tick period is written <<q, r>>, standing for 1250 * q + r
\* microseconds with r < 1250: the integers of TLC have 32 bits,
\* signed, and cannot hold every uint32.  UINT32_MAX is <<3435973, 1045>>.
\*
\* TimeKeeper::syncToMIDIClock(tickPeriodUs), the local spb:
\*   beatPeriodUs = (uint64_t)tickPeriodUs * MIDI_PPQN;
\*   uint32_t spb = (beatPeriodUs * SAMPLE_RATE) / 1000000ULL;
\* MIDI_PPQN * SAMPLE_RATE / 1000000 = 1058400 / 1000000 = 1323 / 1250, so
\* the 64-bit quotient is 1323 * q + (1323 * r) div 1250; the assignment to
\* a uint32_t keeps it modulo 2^32.  1323 * SyncWrapQ = 2^32 + SyncWrapRest.
\* A uint32 of 2^31 or more is written as the negative number with the same
\* 32 bits; it fails spb >= 8000 either way.
syncSpb(p) ==
    LET q == p[1]
        low == (SyncNum * p[2]) \div SyncDen
    IN  IF q < SyncHalfQ
           THEN (SyncNum * q) + low
           ELSE (SyncNum * (q - SyncWrapQ)) + SyncWrapRest + low

\* TimeKeeper::syncToMIDIClock(tickPeriodUs): the s_samplesPerBeat it leaves
syncToMIDIClock(p, spb) ==
    IF syncSpb(p) >= 8000 /\ syncSpb(p) <= 100000 THEN syncSpb(p) ELSE spb

\* a faulty incrementTick: the beat starts one tick late
incrementTickLate(tick, beat) ==
    IF tick + 1 > MIDI_PPQN
       THEN [tick |-> 0, beat |-> beat + 1, flag |-> TRUE]
       ELSE [tick |-> tick + 1, beat |-> beat, flag |-> FALSE]

\* TimeKeeper::incrementTick(): the tick and the beat it stores, and
\* whether it stores s_beatFlag = true
incrementTick(tick, beat) ==
    IF tick + 1 >= MIDI_PPQN
       THEN [tick |-> 0, beat |-> beat + 1, flag |-> TRUE]
       ELSE [tick |-> tick + 1, beat |-> beat, flag |-> FALSE]

\* a faulty pollBeatFlag: a load in place of the exchange
pollBeatFlagLoad(flag) == [ret |-> flag, flag |-> flag]

\* TimeKeeper::pollBeatFlag(): __atomic_exchange_n(&s_beatFlag, false)
pollBeatFlag(flag) == [ret |-> flag, flag |-> FALSE]

\* TimeKeeper::getBarNumber(), getBeatInBar()
getBarNumber == s_beatNumber \div BEATS_PER_BAR
getBeatInBar == s_beatNumber % BEATS_PER_BAR

\* TimeKeeper::incrementSamples(numSamples), interrupts disabled
incrementSamples(pos, numSamples) == pos + numSamples

\* a faulty samplesToNextBeat: a grace period of one audio block
samplesToNextBeatBlock(pos, spb) ==
    IF pos % spb <= AUDIO_BLOCK_SAMPLES THEN 0 ELSE spb - (pos % spb)

\* TimeKeeper::samplesToNextBeat() at sample position pos
samplesToNextBeat(pos, spb) ==
    LET sampleWithinBeat == pos % spb
        samplesToNext == spb - sampleWithinBeat
    IN  IF sampleWithinBeat <= 16 THEN 0 ELSE samplesToNext

\* TimeKeeper::samplesToNextBar() at sample position pos
samplesToNextBar(pos, spb) ==
    LET samplesPerBar == spb * BEATS_PER_BAR
        sampleWithinBar == pos % samplesPerBar
        samplesToNext == samplesPerBar - sampleWithinBar
    IN  IF sampleWithinBar <= 16 THEN 0 ELSE samplesToNext

-----------------------------------------------------------------------------
(* AudioEffectStutter                                                       *)

\* The capture buffer's length in samples.  The firmware's value is
\* 37800 * 4 = 151200; the model keeps the buffer between one and two audio
\* blocks long, and not a whole number of blocks, so that a capture fills it.
STUTTER_BUFFER_SAMPLES == 200

StutterStates == {"IDLE_NO_LOOP", "IDLE_WITH_LOOP", "WAIT_CAPTURE_START",
                  "CAPTURING", "WAIT_CAPTURE_END", "WAIT_PLAYBACK_ONSET",
                  "PLAYING", "WAIT_PLAYBACK_LENGTH"}

\* AudioEffectStutter(): the constructor
StutterConstructed ==
    [m_writePos |-> 0, m_readPos |-> 0, m_captureLength |-> 0,
     m_state |-> "IDLE_NO_LOOP",
     m_lengthMode |-> "FREE", m_onsetMode |-> "FREE",
     m_captureStartMode |-> "FREE", m_captureEndMode |-> "FREE",
     m_captureStartAtSample |-> 0, m_captureEndAtSample |-> 0,
     m_playbackOnsetAtSample |-> 0, m_playbackLengthAtSample |-> 0,
     m_stutterHeld |-> FALSE]

\* isEnabled()
StutterIsEnabled(e) ==
    e.m_state # "IDLE_NO_LOOP" /\ e.m_state # "IDLE_WITH_LOOP"

\* update(): the condition under which a scheduled field fires
StutterFires(field, currentSample) ==
    /\ field > 0
    /\ currentSample >= field
    /\ currentSample < currentSample + AUDIO_BLOCK_SAMPLES

\* the scheduled fields of the engine, in the order update() tests them
StutterSchedule ==
    <<"m_captureStartAtSample", "m_captureEndAtSample",
      "m_playbackOnsetAtSample", "m_playbackLengthAtSample">>

\* update(): the scheduled fields that fire in the block
StutterFired(e, currentSample) ==
    SelectSeq(StutterSchedule,
              LAMBDA f : StutterFires(e[f], currentSample))

\* update(): scheduled capture start
UpdCaptureStart(e, currentSample) ==
    IF StutterFires(e.m_captureStartAtSample, currentSample)
       THEN [e EXCEPT !.m_writePos = 0, !.m_captureLength = 0,
                      !.m_state = "CAPTURING", !.m_captureStartAtSample = 0]
       ELSE e

\* update(): scheduled capture end
UpdCaptureEnd(e, currentSample) ==
    IF StutterFires(e.m_captureEndAtSample, currentSample)
       THEN IF e.m_writePos > 0
               THEN IF e.m_stutterHeld
                       THEN [e EXCEPT !.m_captureLength = e.m_writePos,
                                      !.m_readPos = 0,
                                      !.m_state = "PLAYING",
                                      !.m_captureEndAtSample = 0]
                       ELSE [e EXCEPT !.m_captureLength = e.m_writePos,
                                      !.m_state = "IDLE_WITH_LOOP",
                                      !.m_captureEndAtSample = 0]
               ELSE [e EXCEPT !.m_state = "IDLE_NO_LOOP",
                              !.m_captureEndAtSample = 0]
       ELSE e

\* update(): scheduled playback onset
UpdPlaybackOnset(e, currentSample) ==
    IF StutterFires(e.m_playbackOnsetAtSample, currentSample)
       THEN [e EXCEPT !.m_readPos = 0, !.m_state = "PLAYING",
                      !.m_playbackOnsetAtSample = 0]
       ELSE e

\* update(): scheduled playback length
UpdPlaybackLength(e, currentSample) ==
    IF StutterFires(e.m_playbackLengthAtSample, currentSample)
       THEN [e EXCEPT !.m_state = "IDLE_WITH_LOOP",
                      !.m_playbackLengthAtSample = 0]
       ELSE e

\* a faulty write loop: it does not test the room left in the buffer
WriteLoopUnbounded(writePos) ==
    [pos |-> writePos + AUDIO_BLOCK_SAMPLES,
     hi |-> writePos + AUDIO_BLOCK_SAMPLES - 1]

\* update(): the write loop of the capture case,
\*   for (i = 0; i < AUDIO_BLOCK_SAMPLES && m_writePos < N; i++)
\*       { buf[m_writePos] = in[i]; m_writePos++; }
\* It runs n iterations, n the smaller of the block's length and the room
\* left, and writes the indices writePos .. writePos + n - 1.
\* pos is m_writePos after the loop, hi the highest index written (-1: none).
WriteLoop(writePos) ==
    LET n == IF writePos < STUTTER_BUFFER_SAMPLES
                THEN Min(AUDIO_BLOCK_SAMPLES,
                         STUTTER_BUFFER_SAMPLES - writePos)
                ELSE 0
    IN  [pos |-> writePos + n,
         hi |-> IF n > 0 THEN writePos + n - 1 ELSE -1]

\* update(): the read loop of the playing case,
\*   for (i = 0; i < AUDIO_BLOCK_SAMPLES; i++)
\*       { out[i] = buf[m_readPos]; m_readPos++;
\*         if (m_readPos >= m_captureLength) m_readPos = 0; }
\* The first iteration reads index readPos and leaves m_readPos at first;
\* the other iterations walk on from first, wrapping at len.
\* pos is m_readPos after the loop, hi the highest index read.
ReadLoop(readPos, len) ==
    LET first == IF readPos + 1 >= len THEN 0 ELSE readPos + 1
        rest == AUDIO_BLOCK_SAMPLES - 1
    IN  IF len <= 1
           THEN [pos |-> 0, hi |-> readPos]
           ELSE [pos |-> (first + rest) % len,
                 hi |-> Max(readPos,
                            IF first + rest - 1 >= len - 1
                               THEN len - 1
                               ELSE first + rest - 1)]

\* a faulty buffer-full transition: the scheduled capture end stays pending
BufferFullKeepsEnd(e) ==
    IF e.m_writePos >= STUTTER_BUFFER_SAMPLES
       THEN IF e.m_stutterHeld
               THEN [e EXCEPT !.m_captureLength = e.m_writePos,
                              !.m_readPos = 0, !.m_state = "PLAYING"]
               ELSE [e EXCEPT !.m_captureLength = e.m_writePos,
                              !.m_state = "IDLE_WITH_LOOP"]
       ELSE e

\* update(): the buffer-full transition at the end of the capture case
BufferFull(e) ==
    IF e.m_writePos >= STUTTER_BUFFER_SAMPLES
       THEN IF e.m_stutterHeld
               THEN [e EXCEPT !.m_captureLength = e.m_writePos,
                              !.m_readPos = 0, !.m_state = "PLAYING",
                              !.m_captureEndAtSample = 0]
               ELSE [e EXCEPT !.m_captureLength = e.m_writePos,
                              !.m_state = "IDLE_WITH_LOOP",
                              !.m_captureEndAtSample = 0]
       ELSE e

\* update(): the switch on m_state.  haveIn: both input blocks arrived;
\* haveOut: both output blocks were allocated.  The result carries the
\* engine after the block and the highest buffer indices written and read.
StutterProcess(e, haveIn, haveOut) ==
    IF e.m_state \in {"CAPTURING", "WAIT_CAPTURE_END"}
       THEN IF haveIn
               THEN LET w == WriteLoop(e.m_writePos)
                    IN  [e |-> BufferFull([e EXCEPT !.m_writePos = w.pos]),
                         wroteMax |-> w.hi, readMax |-> -1]
               ELSE [e |-> e, wroteMax |-> -1, readMax |-> -1]
    ELSE IF e.m_state \in {"PLAYING", "WAIT_PLAYBACK_LENGTH"}
       THEN IF haveOut
               THEN LET r == ReadLoop(e.m_readPos, e.m_captureLength)
                    IN  [e |-> [e EXCEPT !.m_readPos = r.pos],
                         wroteMax |-> -1, readMax |-> r.hi]
               ELSE [e |-> e, wroteMax |-> -1, readMax |-> -1]
    ELSE [e |-> e, wroteMax |-> -1, readMax |-> -1]

\* a faulty order: the later check of each pair is made first
StutterScheduledLaterFirst(e, currentSample) ==
    UpdPlaybackOnset(
        UpdPlaybackLength(
            UpdCaptureStart(
                UpdCaptureEnd(e, currentSample), currentSample),
            currentSample),
        currentSample)

\* update(): the engine's fields after the four scheduled checks
StutterScheduled(e, currentSample) ==
    UpdPlaybackLength(
        UpdPlaybackOnset(
            UpdCaptureEnd(
                UpdCaptureStart(e, currentSample), currentSample),
            currentSample),
        currentSample)

\* update(): whether the block is transmitted to the next engine
StutterTransmits(e, haveIn, haveOut) ==
    IF e.m_state \in {"PLAYING", "WAIT_PLAYBACK_LENGTH"}
       THEN haveOut
       ELSE haveIn

\* update() as a whole
StutterUpdate(e, currentSample, haveIn, haveOut) ==
    StutterProcess(StutterScheduled(e, currentSample), haveIn, haveOut)

-----------------------------------------------------------------------------
(* AudioEffectChoke                                                         *)

\* AudioEffectChoke(): the constructor
ChokeConstructed ==
    [m_targetGain |-> 1, m_isEnabled |-> FALSE,
     m_lengthMode |-> "FREE", m_onsetMode |-> "FREE",
     m_releaseAtSample |-> 0, m_onsetAtSample |-> 0]

\* a faulty condition: a scheduled sample that lies in the past fires too
ChokeFiresPast(field, currentSample) ==
    /\ field > 0
    /\ field < currentSample + AUDIO_BLOCK_SAMPLES

\* update(): the condition under which a scheduled field fires
ChokeFires(field, currentSample) ==
    /\ field > 0
    /\ field >= currentSample
    /\ field < currentSample + AUDIO_BLOCK_SAMPLES

\* update(): scheduled onset
ChokeUpdOnset(c, currentSample) ==
    IF ChokeFires(c.m_onsetAtSample, currentSample)
       THEN [c EXCEPT !.m_targetGain = 0, !.m_isEnabled = TRUE,
                      !.m_onsetAtSample = 0]
       ELSE c

\* update(): scheduled release
ChokeUpdRelease(c, currentSample) ==
    IF ChokeFires(c.m_releaseAtSample, currentSample)
       THEN [c EXCEPT !.m_targetGain = 1, !.m_isEnabled = FALSE,
                      !.m_releaseAtSample = 0]
       ELSE c

\* update(): the scheduled checks, onset first
ChokeUpdate(c, currentSample) ==
    ChokeUpdRelease(ChokeUpdOnset(c, currentSample), currentSample)

\* update(): gainIncrement = (m_targetGain - m_currentGain) / FADE_SAMPLES.
\* The division is exact for the gains a block starts with, 0 and GAIN_ONE.
gainIncrement(targetGain, currentGain) ==
    ((targetGain * GAIN_ONE - currentGain) * 10) \div FADE_SAMPLES_X10

\* applyGainRamp(): m_currentGain += gainIncrement, clamped to [0.0, 1.0]
rampGain(currentGain, increment) ==
    IF currentGain + increment < 0 THEN 0
    ELSE IF currentGain + increment > GAIN_ONE THEN GAIN_ONE
    ELSE currentGain + increment

-----------------------------------------------------------------------------
(* AudioEffectFreeze                                                        *)

\* FREEZE_BUFFER_SAMPLES = (FREEZE_BUFFER_MS * SAMPLE_RATE) / 1000, 3 ms
FREEZE_BUFFER_SAMPLES == 132

\* the circular index after adding n <= AUDIO_BLOCK_SAMPLES increments, each
\* followed by "if (pos >= FREEZE_BUFFER_SAMPLES) pos = 0"
FreezeAdvance(pos, n) ==
    IF pos + n >= FREEZE_BUFFER_SAMPLES
       THEN pos + n - FREEZE_BUFFER_SAMPLES
       ELSE pos + n

\* AudioEffectFreeze(): the constructor.  m_freezeBuffer holds, for every
\* index, the number of the input sample recorded there (0: the silence
\* of memset).  Ghosts: recorded, the number of input samples recorded so
\* far; engaged, the values of recorded and m_writePos when m_isEnabled
\* last went from false to true; played, the number of samples put out
\* since then, modulo the buffer's length.
FreezeConstructed ==
    [m_writePos |-> 0, m_readPos |-> 0, m_isEnabled |-> FALSE,
     m_lengthMode |-> "FREE", m_onsetMode |-> "FREE",
     m_releaseAtSample |-> 0, m_onsetAtSample |-> 0,
     m_freezeBuffer |-> [i \in 0..(FREEZE_BUFFER_SAMPLES - 1) |-> 0],
     recorded |-> 0,
     engaged |-> [recorded |-> 0, writePos |-> 0],
     played |-> 0]

\* the ghosts at a store of true into m_isEnabled
FreezeEngaged(z) ==
    IF z.m_isEnabled
       THEN z
       ELSE [z EXCEPT !.engaged = [recorded |-> z.recorded,
                                   writePos |-> z.m_writePos],
                      !.played = 0]

\* update(): scheduled onset
FreezeUpdOnset(z, currentSample) ==
    IF ChokeFires(z.m_onsetAtSample, currentSample)
       THEN [FreezeEngaged(z) EXCEPT !.m_readPos = z.m_writePos,
                                     !.m_isEnabled = TRUE,
                                     !.m_onsetAtSample = 0]
       ELSE z

\* update(): scheduled release
FreezeUpdRelease(z, currentSample) ==
    IF ChokeFires(z.m_releaseAtSample, currentSample)
       THEN [z EXCEPT !.m_isEnabled = FALSE, !.m_releaseAtSample = 0]
       ELSE z

\* update(), passthrough: the block is recorded into the circular buffer
FreezeRecord(z) ==
    [z EXCEPT
       !.m_freezeBuffer =
           [i \in 0..(FREEZE_BUFFER_SAMPLES - 1) |->
               LET k == IF i >= z.m_writePos
                           THEN i - z.m_writePos
                           ELSE i + FREEZE_BUFFER_SAMPLES - z.m_writePos
               IN  IF k < AUDIO_BLOCK_SAMPLES
                      THEN z.recorded + k + 1
                      ELSE z.m_freezeBuffer[i]],
       !.m_writePos = FreezeAdvance(@, AUDIO_BLOCK_SAMPLES),
       !.recorded = @ + AUDIO_BLOCK_SAMPLES]

\* update(), frozen: the block is read from the circular buffer
FreezeRead(z) ==
    [z EXCEPT !.m_readPos = FreezeAdvance(@, AUDIO_BLOCK_SAMPLES),
              !.played = FreezeAdvance(@, AUDIO_BLOCK_SAMPLES)]

\* what update() transmits when frozen: the buffer from m_readPos on
FreezeOutput(z) ==
    [j \in 1..AUDIO_BLOCK_SAMPLES |->
        z.m_freezeBuffer[FreezeAdvance(z.m_readPos, j - 1)]]

\* update(): the scheduled checks, then one block recorded or read.
\* haveIn: both input blocks were received; haveOut: both output blocks
\* were allocated.
FreezeUpdate(z, currentSample, haveIn, haveOut) ==
    LET s == FreezeUpdRelease(FreezeUpdOnset(z, currentSample), currentSample)
    IN  IF ~s.m_isEnabled
           THEN IF haveIn THEN FreezeRecord(s) ELSE s
           ELSE IF haveOut THEN FreezeRead(s) ELSE s

-----------------------------------------------------------------------------
(* The audio interrupt                                                      *)

\* the ghost of a step that did nothing the claims look at
NoHist ==
    [op |-> "none", f |-> "", v |-> 0,
     wroteMax |-> -1, readMax |-> -1, filled |-> FALSE, pending |-> FALSE,
     ended |-> "none", arg |-> <<>>]

\* One audio block: AudioTimeKeeper::update advances the sample counter,
\* then the engines' update() run, all inside the audio interrupt.  limit:
\* the sample position at which the behaviour stops.  The FREEZE engine
\* reads and writes no field of another engine and none reads its fields:
\* with all = FALSE the step leaves it out, for the behaviours in which it
\* receives no command.  preempts: how many blocks may run inside one
\* handler of the control thread, -1 where the behaviour does not count them.
AudioStep(limit, all, preempts) ==
    /\ s_samplePosition < limit
    /\ ctl = <<>> \/ preempts < 0 \/ loc.preempted < preempts
    /\ \E haveIn \in BOOLEAN, haveOut \in BOOLEAN :
          LET currentSample ==
                  incrementSamples(s_samplePosition, AUDIO_BLOCK_SAMPLES)
              started == UpdCaptureStart(stutter, currentSample)
              sched == StutterScheduled(stutter, currentSample)
              r == StutterUpdate(stutter, currentSample, haveIn, haveOut)
              capturing == {"CAPTURING", "WAIT_CAPTURE_END"}
              filled == /\ sched.m_state \in capturing
                        /\ haveIn
                        /\ r.e.m_writePos >= STUTTER_BUFFER_SAMPLES
              scheduledEnd ==
                        /\ started.m_state \in capturing
                        /\ StutterFires(started.m_captureEndAtSample,
                                        currentSample)
              engages == /\ all
                         /\ ~freeze.m_isEnabled
                         /\ ChokeFires(freeze.m_onsetAtSample, currentSample)
          IN  /\ s_samplePosition' = currentSample
              /\ stutter' = r.e
              /\ freeze' = IF all
                              THEN FreezeUpdate(freeze, currentSample,
                                                StutterTransmits(sched, haveIn,
                                                                 haveOut),
                                                haveOut)
                              ELSE freeze
              /\ choke' = ChokeUpdate(choke, currentSample)
              /\ hist' = [NoHist EXCEPT
                            !.op = "block",
                            !.f = IF engages THEN "engage" ELSE "",
                            !.v = IF engages
                                     THEN FreezeUpdOnset(freeze,
                                              currentSample).m_readPos
                                     ELSE 0,
                            !.arg = StutterFired(stutter, currentSample),
                            !.wroteMax = r.wroteMax,
                            !.readMax = r.readMax,
                            !.filled = filled,
                            !.pending = /\ filled
                                        /\ sched.m_state = "WAIT_CAPTURE_END"
                                        /\ sched.m_captureEndAtSample > 0,
                            !.ended = IF filled THEN "full"
                                      ELSE IF scheduledEnd THEN "scheduled"
                                      ELSE "none"]
    /\ LET currentSample ==
               incrementSamples(s_samplePosition, AUDIO_BLOCK_SAMPLES)
           raced == \/ /\ loc.released = "choke"
                        /\ ChokeFires(choke.m_onsetAtSample, currentSample)
                    \/ /\ loc.released = "freeze"
                        /\ all
                        /\ ChokeFires(freeze.m_onsetAtSample, currentSample)
       IN  loc' = [loc EXCEPT
                     !.boundary = IF @ = "scheduled" THEN "blockRun"
                                  ELSE IF @ = "blockRun" THEN "none"
                                  ELSE @,
                     !.raced = @ \/ (ctl # <<>> /\ raced),
                     !.captureStart =
                         IF stutter'.m_state = "CAPTURING" THEN @ ELSE -1,
                     !.preempted = IF ctl # <<>> /\ preempts >= 0
                                      THEN @ + 1 ELSE @]
    /\ UNCHANGED <<qvars, mvars, s_tickInBeat, s_beatNumber, s_transportState,
                   tickCalls, s_beatFlag, wrapsSincePoll, s_samplesPerBeat,
                   globalQuantization,
                   m_funcHeld, m_stutterHeld, stutterEnableKind, ctl>>

\* the audio block of the behaviours of STUTTER and CHOKE
AudioBlock ==
    AudioStep((StartBlocks + MaxBlocks) * AUDIO_BLOCK_SAMPLES, FALSE, -1)

\* the audio block with every engine
AudioBlockAll ==
    AudioStep((StartBlocks + MaxBlocks) * AUDIO_BLOCK_SAMPLES, TRUE, -1)

\* update(), entered by the audio interrupt: the scheduled checks, the two
\* blocks received, the gain increment of the block
GainUpdate ==
    /\ ramp.channel = "none"
    /\ choke' = ChokeUpdate(choke, s_samplePosition)
    /\ ramp' = [NoRamp EXCEPT
                  !.channel = "L",
                  !.gainIncrement =
                      gainIncrement(choke'.m_targetGain, m_currentGain)]
    /\ hist' = NoHist
    /\ UNCHANGED <<writeIdx, readIdx, buffer, prod, cons, pushed, popped,
                   lastPush, ivars, m_currentGain>>
    /\ UNCHANGED <<tvars, svars, freeze, mvars, ctl, loc>>

\* applyGainRamp(), one turn of its loop: on blockL->data, then on
\* blockR->data.  ghost: left, the gain each sample of the left block was
\* multiplied by; applied, the gain of this sample
ApplyGainRamp ==
    /\ ramp.channel # "none"
    /\ m_currentGain' = rampGain(m_currentGain, ramp.gainIncrement)
    /\ ramp' =
          LET last == ramp.i = AUDIO_BLOCK_SAMPLES - 1
          IN  IF ramp.channel = "L"
                 THEN [ramp EXCEPT
                         !.left = Append(@, m_currentGain'),
                         !.applied = m_currentGain',
                         !.i = IF last THEN 0 ELSE @ + 1,
                         !.channel = IF last THEN "R" ELSE "L"]
                 ELSE [ramp EXCEPT
                         !.applied = m_currentGain',
                         !.i = IF last THEN 0 ELSE @ + 1,
                         !.channel = IF last THEN "none" ELSE "R"]
    /\ hist' = [NoHist EXCEPT !.op = "applyGainRamp", !.f = ramp.channel,
                              !.v = ramp.i]
    /\ UNCHANGED <<writeIdx, readIdx, buffer, prod, cons, pushed, popped,
                   lastPush, ivars>>
    /\ UNCHANGED <<tvars, svars, cvars, mvars, ctl, loc>>

-----------------------------------------------------------------------------
(* The control thread: engine methods as the stores they make               *)

\* a step of a handler: one access to memory shared with the interrupt
Set(o, f, v)      == [op |-> "set", o |-> o, f |-> f, v |-> v]
ReadSample(add)   == [op |-> "readSample", o |-> "", f |-> "", v |-> add]
StoreSample(o, f, add) == [op |-> "storeSample", o |-> o, f |-> f, v |-> add]
ReadWritePos(held) == [op |-> "readWritePos", o |-> "", f |-> "", v |-> held]
StoreLength       == [op |-> "storeLength", o |-> "", f |-> "", v |-> 0]
SetEndState(v)    == [op |-> "setEndState", o |-> "", f |-> "", v |-> v]

\* AudioEffectStutter::enable()
StutterEnable ==
    <<Set("stutter", "m_readPos", 0), Set("stutter", "m_state", "PLAYING")>>

\* AudioEffectStutter::startCapture()
startCapture ==
    <<Set("stutter", "m_writePos", 0), Set("stutter", "m_captureLength", 0),
      Set("stutter", "m_state", "CAPTURING")>>

\* AudioEffectStutter::scheduleCaptureStart(sample)
scheduleCaptureStart ==
    <<StoreSample("stutter", "m_captureStartAtSample", 0),
      Set("stutter", "m_state", "WAIT_CAPTURE_START")>>

\* AudioEffectStutter::cancelCaptureStart()
cancelCaptureStart ==
    <<Set("stutter", "m_captureStartAtSample", 0),
      Set("stutter", "m_state", "IDLE_NO_LOOP")>>

\* AudioEffectStutter::endCapture(stutterHeld): it begins by reading
\* m_writePos; EndCaptureRest gives the stores that follow the read
endCapture(stutterHeld) == <<ReadWritePos(stutterHeld)>>

EndCaptureRest(writePos, stutterHeld) ==
    IF writePos > 0
       THEN IF stutterHeld
               THEN <<StoreLength, Set("stutter", "m_readPos", 0),
                      SetEndState("PLAYING")>>
               ELSE <<StoreLength, SetEndState("IDLE_WITH_LOOP")>>
       ELSE <<SetEndState("IDLE_NO_LOOP")>>

\* AudioEffectStutter::scheduleCaptureEnd(sample, stutterHeld)
scheduleCaptureEnd(stutterHeld) ==
    <<StoreSample("stutter", "m_captureEndAtSample", 0),
      Set("stutter", "m_stutterHeld", stutterHeld),
      Set("stutter", "m_state", "WAIT_CAPTURE_END")>>

\* AudioEffectStutter::startPlayback()
startPlayback ==
    <<Set("stutter", "m_readPos", 0), Set("stutter", "m_state", "PLAYING")>>

\* AudioEffectStutter::schedulePlaybackOnset(sample)
schedulePlaybackOnset ==
    <<StoreSample("stutter", "m_playbackOnsetAtSample", 0),
      Set("stutter", "m_state", "WAIT_PLAYBACK_ONSET")>>

\* AudioEffectStutter::stopPlayback()
stopPlayback == <<Set("stutter", "m_state", "IDLE_WITH_LOOP")>>

\* AudioEffectStutter::schedulePlaybackLength(sample)
schedulePlaybackLength ==
    <<StoreSample("stutter", "m_playbackLengthAtSample", 0),
      Set("stutter", "m_state", "WAIT_PLAYBACK_LENGTH")>>

\* AudioEffectChoke::enable()
ChokeEnable ==
    <<Set("choke", "m_targetGain", 0), Set("choke", "m_isEnabled", TRUE)>>

\* AudioEffectChoke::disable()
ChokeDisable ==
    <<Set("choke", "m_targetGain", 1), Set("choke", "m_isEnabled", FALSE)>>

\* AudioEffectChoke::scheduleOnset(onsetSample)
ChokeScheduleOnset == <<StoreSample("choke", "m_onsetAtSample", 0)>>

\* a faulty scheduleRelease: the release is stored one block late
ChokeScheduleReleaseLate(add) ==
    <<StoreSample("choke", "m_releaseAtSample", add + AUDIO_BLOCK_SAMPLES)>>

\* AudioEffectChoke::scheduleRelease(releaseSample); add is what the caller
\* added to the sample position it read
ChokeScheduleRelease(add) == <<StoreSample("choke", "m_releaseAtSample", add)>>

\* AudioEffectChoke::cancelScheduledOnset()
ChokeCancelScheduledOnset == <<Set("choke", "m_onsetAtSample", 0)>>

\* AudioEffectFreeze::enable(): m_readPos = m_writePos, a load and a store,
\* then the store of m_isEnabled
FreezeLoadWritePos == [op |-> "loadWritePos", o |-> "freeze", f |-> "", v |-> 0]
FreezeStoreReadPos == [op |-> "storeReadPos", o |-> "freeze", f |-> "", v |-> 0]
FreezeEnable ==
    <<FreezeLoadWritePos, FreezeStoreReadPos,
      Set("freeze", "m_isEnabled", TRUE)>>

\* AudioEffectFreeze::disable()
FreezeDisable == <<Set("freeze", "m_isEnabled", FALSE)>>

\* AudioEffectFreeze::scheduleOnset(onsetSample)
FreezeScheduleOnset == <<StoreSample("freeze", "m_onsetAtSample", 0)>>

\* AudioEffectFreeze::scheduleRelease(releaseSample)
FreezeScheduleRelease(add) ==
    <<StoreSample("freeze", "m_releaseAtSample", add)>>

\* a faulty release: the scheduled onset is left in place
FreezeKeepsScheduledOnset == <<>>

\* AudioEffectFreeze::cancelScheduledOnset()
FreezeCancelScheduledOnset == <<Set("freeze", "m_onsetAtSample", 0)>>

\* The handler's locals, and two ghosts.  cancelling: the wait the last
\* STUTTER release found the engine in, until the next STUTTER press.
\* boundary: the progress of a CHOKE press taken on a beat boundary with
\* QUANTIZED onset: "handling" while the handler runs, "scheduled" once it
\* has returned, "blockRun" after the first audio block that follows.
\* released: the engine ("choke", "freeze") whose last command was a release
\* taken with FREE length, until its next press.  raced: the audio interrupt
\* fired that engine's scheduled onset while the release was being handled.
\* due: the sample position the last CHOKE press read plus the duration of
\* the grid step, when the press was taken with FREE onset and QUANTIZED
\* length (-1 until it reads).  preempted: the audio blocks that ran inside
\* the handler in execution, where the behaviour counts them.
\* captureStart: the sample position at which startCapture() stored
\* CAPTURING, while the engine stays in that state (-1 otherwise).
NoLoc ==
    [sample |-> 0, w |-> 0, cancelling |-> "none", boundary |-> "none",
     released |-> "none", raced |-> FALSE, due |-> 0, preempted |-> 0,
     captureStart |-> -1]

\* the locals after a step: they are dead once the handler has returned
Leave(l, rest) ==
    IF rest = <<>>
       THEN [l EXCEPT !.sample = 0, !.w = 0, !.preempted = 0,
                      !.boundary = IF @ = "handling" THEN "scheduled" ELSE @]
       ELSE l

\* ---- the steps, as the control thread executes them ----

\* a store of a constant into a field of an engine
CtlSet ==
    /\ ctl # <<>>
    /\ Head(ctl).op = "set"
    /\ LET h == Head(ctl)
           engages == h.o = "freeze" /\ h.f = "m_isEnabled" /\ h.v
                      /\ ~freeze.m_isEnabled
       IN  /\ stutter' = IF h.o = "stutter"
                            THEN [stutter EXCEPT ![h.f] = h.v]
                            ELSE stutter
           /\ choke' = IF h.o = "choke"
                          THEN [choke EXCEPT ![h.f] = h.v]
                          ELSE choke
           /\ freeze' = IF engages
                           THEN [FreezeEngaged(freeze) EXCEPT ![h.f] = h.v]
                           ELSE IF h.o = "freeze"
                                   THEN [freeze EXCEPT ![h.f] = h.v]
                                   ELSE freeze
           /\ hist' = IF engages
                         THEN [NoHist EXCEPT !.op = "engage",
                                             !.v = freeze.m_readPos]
                         ELSE NoHist
    /\ ctl' = Tail(ctl)
    /\ LET h == Head(ctl)
       IN  loc' = [Leave(loc, Tail(ctl)) EXCEPT
                     !.captureStart =
                         IF h.o = "stutter" /\ h.f = "m_state"
                            THEN IF h.v = "CAPTURING"
                                    THEN s_samplePosition ELSE -1
                            ELSE @]
    /\ UNCHANGED <<qvars, mvars, tvars, m_funcHeld, m_stutterHeld, stutterEnableKind>>

\* TimeKeeper::getSamplePosition() + the distance the handler computed
CtlReadSample ==
    /\ ctl # <<>>
    /\ Head(ctl).op = "readSample"
    /\ loc' = [loc EXCEPT !.sample = s_samplePosition + Head(ctl).v,
                          !.due = IF @ = -1
                                     THEN s_samplePosition + DurationSamples
                                     ELSE @]
    /\ ctl' = Tail(ctl)
    /\ hist' = NoHist
    /\ UNCHANGED <<qvars, mvars, tvars, svars, cvars>>

\* the store of a scheduled sample into a field of an engine
CtlStoreSample ==
    /\ ctl # <<>>
    /\ Head(ctl).op = "storeSample"
    /\ LET h == Head(ctl)
           value == loc.sample + h.v
       IN  /\ stutter' = IF h.o = "stutter"
                            THEN [stutter EXCEPT ![h.f] = value]
                            ELSE stutter
           /\ choke' = IF h.o = "choke"
                          THEN [choke EXCEPT ![h.f] = value]
                          ELSE choke
           /\ freeze' = IF h.o = "freeze"
                           THEN [freeze EXCEPT ![h.f] = value]
                           ELSE freeze
           /\ hist' = [NoHist EXCEPT !.op = "storeSample", !.f = h.f,
                                     !.v = value]
    /\ ctl' = Tail(ctl)
    /\ loc' = Leave(loc, Tail(ctl))
    /\ UNCHANGED <<qvars, mvars, tvars, m_funcHeld, m_stutterHeld, stutterEnableKind>>

\* AudioEffectFreeze::enable(): the load of m_writePos
CtlFreezeLoadWritePos ==
    /\ ctl # <<>>
    /\ Head(ctl).op = "loadWritePos"
    /\ loc' = [loc EXCEPT !.w = freeze.m_writePos]
    /\ ctl' = Tail(ctl)
    /\ hist' = NoHist
    /\ UNCHANGED <<qvars, mvars, tvars, svars, cvars>>

\* AudioEffectFreeze::enable(): the store of m_readPos; the ghost keeps the
\* value the store replaced
CtlFreezeStoreReadPos ==
    /\ ctl # <<>>
    /\ Head(ctl).op = "storeReadPos"
    /\ freeze' = [freeze EXCEPT !.m_readPos = loc.w]
    /\ ctl' = Tail(ctl)
    /\ loc' = Leave(loc, Tail(ctl))
    /\ hist' = [NoHist EXCEPT !.op = "storeReadPos", !.v = freeze.m_readPos]
    /\ UNCHANGED <<qvars, mvars, tvars, svars, choke>>

\* endCapture(): if (m_writePos > 0)
CtlReadWritePos ==
    /\ ctl # <<>>
    /\ Head(ctl).op = "readWritePos"
    /\ loc' = [loc EXCEPT !.w = stutter.m_writePos]
    /\ ctl' = EndCaptureRest(stutter.m_writePos, Head(ctl).v) \o Tail(ctl)
    /\ hist' = [NoHist EXCEPT
                  !.op = "readWritePos",
                  !.v = IF loc.captureStart >= 0
                           THEN s_samplePosition - loc.captureStart
                           ELSE -1]
    /\ UNCHANGED <<qvars, mvars, tvars, svars, cvars>>

\* endCapture(): m_captureLength = m_writePos.  m_writePos is not volatile:
\* the value stored is the one the test read, or one read again for the store.
CtlStoreLength ==
    /\ ctl # <<>>
    /\ Head(ctl).op = "storeLength"
    /\ \E len \in {loc.w, stutter.m_writePos} :
          stutter' = [stutter EXCEPT !.m_captureLength = len]
    /\ ctl' = Tail(ctl)
    /\ loc' = Leave(loc, Tail(ctl))
    /\ hist' = NoHist
    /\ UNCHANGED <<qvars, mvars, tvars, cvars, m_funcHeld, m_stutterHeld,
                   stutterEnableKind>>

\* endCapture(): the store of m_state that ends the capture
CtlSetEndState ==
    /\ ctl # <<>>
    /\ Head(ctl).op = "setEndState"
    /\ stutter' = [stutter EXCEPT !.m_state = Head(ctl).v]
    /\ ctl' = Tail(ctl)
    /\ loc' = [Leave(loc, Tail(ctl)) EXCEPT !.captureStart = -1]
    /\ hist' = [NoHist EXCEPT !.op = "endCapture", !.ended = "immediate"]
    /\ UNCHANGED <<qvars, mvars, tvars, cvars, m_funcHeld, m_stutterHeld,
                   stutterEnableKind>>

-----------------------------------------------------------------------------
(* StutterController                                                        *)

\* handleButtonPress(cmd), cmd.targetEffect == FUNC
HandleFuncPress ==
    /\ ctl = <<>>
    /\ m_funcHeld' = TRUE
    /\ hist' = NoHist
    /\ UNCHANGED <<qvars, mvars, tvars, cvars, stutter, m_stutterHeld,
                   stutterEnableKind, ctl, loc>>

\* handleButtonRelease(cmd), cmd.targetEffect == FUNC
HandleFuncRelease ==
    /\ ctl = <<>>
    /\ m_funcHeld' = FALSE
    /\ LET currentState == stutter.m_state
       IN  ctl' = IF currentState \in {"CAPTURING", "WAIT_CAPTURE_END"}
                     /\ m_stutterHeld
                     THEN IF stutter.m_captureEndMode = "FREE"
                             THEN endCapture(TRUE)
                             ELSE <<ReadSample(SamplesToNext)>>
                                  \o scheduleCaptureEnd(TRUE)
                     ELSE <<>>
    /\ hist' = NoHist
    /\ UNCHANGED <<qvars, mvars, tvars, cvars, stutter, m_stutterHeld,
                   stutterEnableKind, loc>>

\* handleButtonPress(cmd), cmd.targetEffect == STUTTER, a press command
StutterPress ==
    /\ m_stutterHeld' = TRUE
    /\ LET currentState == stutter.m_state
       IN  ctl' = IF m_funcHeld
                     THEN IF stutter.m_captureStartMode = "FREE"
                             THEN startCapture
                             ELSE <<ReadSample(SamplesToNext)>>
                                  \o scheduleCaptureStart
                  ELSE IF currentState = "IDLE_NO_LOOP"
                     THEN <<>>
                  ELSE IF currentState = "IDLE_WITH_LOOP"
                     THEN IF stutter.m_onsetMode = "FREE"
                             THEN startPlayback
                             ELSE <<ReadSample(SamplesToNext)>>
                                  \o schedulePlaybackOnset
                  ELSE <<>>
    /\ loc' = [loc EXCEPT !.cancelling = "none"]
    /\ hist' = [NoHist EXCEPT !.op = "stutterPress"]
    /\ UNCHANGED <<qvars, mvars, tvars, cvars, stutter, m_funcHeld,
                   stutterEnableKind>>

\* handleButtonRelease(cmd), cmd.targetEffect == STUTTER, EFFECT_DISABLE
StutterRelease ==
    /\ m_stutterHeld' = FALSE
    /\ LET currentState == stutter.m_state
       IN  /\ ctl' =
                IF currentState = "WAIT_CAPTURE_START"
                   THEN cancelCaptureStart
                ELSE IF currentState \in {"CAPTURING", "WAIT_CAPTURE_END"}
                   THEN IF stutter.m_captureEndMode = "FREE"
                           THEN endCapture(FALSE)
                           ELSE <<ReadSample(SamplesToNext)>>
                                \o scheduleCaptureEnd(FALSE)
                ELSE IF currentState = "WAIT_PLAYBACK_ONSET"
                   THEN stopPlayback
                ELSE IF currentState = "PLAYING"
                   THEN IF stutter.m_lengthMode = "FREE"
                           THEN stopPlayback
                           ELSE <<ReadSample(SamplesToNext)>>
                                \o schedulePlaybackLength
                ELSE <<>>
           /\ loc' = [loc EXCEPT !.cancelling =
                         IF currentState = "WAIT_CAPTURE_START"
                            THEN "captureStart"
                         ELSE IF currentState = "WAIT_PLAYBACK_ONSET"
                            THEN "playbackOnset"
                         ELSE @]
    /\ hist' = NoHist
    /\ UNCHANGED <<qvars, mvars, tvars, cvars, stutter, m_funcHeld,
                   stutterEnableKind>>

\* EffectManager::executeCommand(cmd) for the STUTTER effect, EFFECT_ENABLE
ExecuteStutterEnable ==
    /\ ctl' = StutterEnable
    /\ loc' = [loc EXCEPT !.cancelling = "none"]
    /\ hist' = [NoHist EXCEPT !.op = "stutterPress"]
    /\ UNCHANGED <<qvars, mvars, tvars, cvars, svars>>

CommandTypes == {"EFFECT_TOGGLE", "EFFECT_ENABLE", "EFFECT_DISABLE"}

\* processInputCommands(), one command whose target is STUTTER: the
\* controller intercepts STUTTER_ENABLE and EFFECT_TOGGLE as a press and
\* EFFECT_DISABLE as a release; what it does not handle goes to
\* EffectManager::executeCommand.
ProcessStutterCommand ==
    /\ ctl = <<>>
    /\ \E type \in CommandTypes :
          IF type = stutterEnableKind \/ type = "EFFECT_TOGGLE"
             THEN StutterPress
          ELSE IF type = "EFFECT_DISABLE"
             THEN StutterRelease
          ELSE ExecuteStutterEnable

StutterModeFields ==
    {"m_lengthMode", "m_onsetMode", "m_captureStartMode", "m_captureEndMode"}

\* the engine with its four modes as the constructor sets them
WithDefaultModes(e) ==
    [e EXCEPT !.m_lengthMode = "FREE", !.m_onsetMode = "FREE",
              !.m_captureStartMode = "FREE", !.m_captureEndMode = "FREE"]

\* setLengthMode, setOnsetMode, setCaptureStartMode, setCaptureEndMode:
\* the modes are configured while the engine is as constructed and no
\* button is held
SetStutterMode ==
    /\ ctl = <<>>
    /\ WithDefaultModes(stutter) = StutterConstructed
    /\ ~m_funcHeld /\ ~m_stutterHeld
    /\ \E f \in StutterModeFields, mode \in {"FREE", "QUANTIZED"} :
          /\ stutter[f] # mode
          /\ stutter' = [stutter EXCEPT ![f] = mode]
    /\ hist' = NoHist
    /\ UNCHANGED <<qvars, mvars, tvars, cvars, m_funcHeld, m_stutterHeld,
                   stutterEnableKind, ctl, loc>>

-----------------------------------------------------------------------------
(* ChokeController                                                          *)

\* handleButtonPress(cmd): EFFECT_ENABLE or EFFECT_TOGGLE for CHOKE
ChokePress ==
    /\ LET lookahead == lookaheadOffset
           samplesToNext == SamplesToNext
           adjustedSamples == IF samplesToNext > lookahead
                                 THEN samplesToNext - lookahead
                                 ELSE 0
       IN  ctl' =
             IF choke.m_onsetMode = "FREE"
                THEN ChokeEnable
                     \o (IF choke.m_lengthMode = "QUANTIZED"
                            THEN <<ReadSample(DurationSamples)>>
                                 \o ChokeScheduleRelease(0)
                            ELSE <<>>)
                ELSE <<ReadSample(adjustedSamples)>>
                     \o ChokeScheduleOnset
                     \o (IF choke.m_lengthMode = "QUANTIZED"
                            THEN ChokeScheduleRelease(DurationSamples)
                            ELSE <<>>)
    /\ loc' = [loc EXCEPT !.boundary =
                  IF choke.m_onsetMode = "QUANTIZED" /\ s_tickInBeat = 0
                     THEN "handling" ELSE "none",
                          !.released = "none", !.raced = FALSE,
                          !.due = IF /\ choke.m_onsetMode = "FREE"
                                     /\ choke.m_lengthMode = "QUANTIZED"
                                     THEN -1 ELSE 0]
    /\ hist' = NoHist
    /\ UNCHANGED <<qvars, mvars, tvars, svars, cvars>>

\* handleButtonRelease(cmd): EFFECT_DISABLE for CHOKE.  With FREE length it
\* cancels the scheduled onset and returns false, and processInputCommands
\* has EffectManager::executeCommand call disable().
ChokeRelease ==
    /\ ctl' = IF choke.m_lengthMode = "QUANTIZED"
                 THEN <<>>
                 ELSE ChokeCancelScheduledOnset \o ChokeDisable
    /\ loc' = [loc EXCEPT !.boundary = "none",
                          !.released = IF choke.m_lengthMode = "QUANTIZED"
                                          THEN @ ELSE "choke",
                          !.raced = IF choke.m_lengthMode = "QUANTIZED"
                                       THEN @ ELSE FALSE]
    /\ hist' = IF choke.m_lengthMode = "QUANTIZED"
                 THEN [NoHist EXCEPT !.op = "absorbed"]
                 ELSE NoHist
    /\ UNCHANGED <<qvars, mvars, tvars, svars, cvars>>

\* processInputCommands(), one command whose target is CHOKE
ProcessChokeCommand ==
    /\ ctl = <<>>
    /\ \E type \in CommandTypes :
          IF type = "EFFECT_ENABLE" \/ type = "EFFECT_TOGGLE"
             THEN ChokePress
             ELSE ChokeRelease

\* encoder 3: setLengthMode / setOnsetMode
SetChokeMode ==
    /\ ctl = <<>>
    /\ \E f \in {"m_lengthMode", "m_onsetMode"},
          mode \in {"FREE", "QUANTIZED"} :
          /\ choke[f] # mode
          /\ choke' = [choke EXCEPT ![f] = mode]
    /\ UNCHANGED freeze
    /\ hist' = NoHist
    /\ UNCHANGED <<qvars, mvars, tvars, svars, ctl, loc>>

-----------------------------------------------------------------------------
(* FreezeController                                                         *)

\* handleButtonPress(cmd): EFFECT_ENABLE or EFFECT_TOGGLE for FREEZE
FreezePress ==
    /\ LET lookahead == lookaheadOffset
           samplesToNext == SamplesToNext
           adjustedSamples == IF samplesToNext > lookahead
                                 THEN samplesToNext - lookahead
                                 ELSE 0
       IN  ctl' =
             IF freeze.m_onsetMode = "FREE"
                THEN FreezeEnable
                     \o (IF freeze.m_lengthMode = "QUANTIZED"
                            THEN <<ReadSample(DurationSamples)>>
                                 \o FreezeScheduleRelease(0)
                            ELSE <<>>)
                ELSE <<ReadSample(adjustedSamples)>>
                     \o FreezeScheduleOnset
                     \o (IF freeze.m_lengthMode = "QUANTIZED"
                            THEN FreezeScheduleRelease(DurationSamples)
                            ELSE <<>>)
    /\ loc' = [loc EXCEPT !.released = "none", !.raced = FALSE]
    /\ hist' = NoHist
    /\ UNCHANGED <<qvars, mvars, tvars, svars, cvars>>

\* handleButtonRelease(cmd): EFFECT_DISABLE for FREEZE.  With FREE length it
\* cancels the scheduled onset and returns false, and processInputCommands
\* has EffectManager::executeCommand call disable().
FreezeRelease ==
    /\ ctl' = IF freeze.m_lengthMode = "QUANTIZED"
                 THEN <<>>
                 ELSE FreezeCancelScheduledOnset \o FreezeDisable
    /\ loc' = [loc EXCEPT !.released = IF freeze.m_lengthMode = "QUANTIZED"
                                          THEN @ ELSE "freeze",
                          !.raced = IF freeze.m_lengthMode = "QUANTIZED"
                                       THEN @ ELSE FALSE]
    /\ hist' = IF freeze.m_lengthMode = "QUANTIZED"
                 THEN [NoHist EXCEPT !.op = "absorbed"]
                 ELSE NoHist
    /\ UNCHANGED <<qvars, mvars, tvars, svars, cvars>>

\* processInputCommands(), one command whose target is FREEZE
ProcessFreezeCommand ==
    /\ ctl = <<>>
    /\ \E type \in CommandTypes :
          IF type = "EFFECT_ENABLE" \/ type = "EFFECT_TOGGLE"
             THEN FreezePress
             ELSE FreezeRelease

\* encoder 1: setLengthMode / setOnsetMode
SetFreezeMode ==
    /\ ctl = <<>>
    /\ \E f \in {"m_lengthMode", "m_onsetMode"},
          mode \in {"FREE", "QUANTIZED"} :
          /\ freeze[f] # mode
          /\ freeze' = [freeze EXCEPT ![f] = mode]
    /\ UNCHANGED choke
    /\ hist' = NoHist
    /\ UNCHANGED <<qvars, mvars, tvars, svars, ctl, loc>>

-----------------------------------------------------------------------------
(* DisplayManager and the visual feedback of the controllers               *)

\* the bitmap a controller shows for its engaged effect: showChoke() and
\* showBitmap(BitmapID::FREEZE_ACTIVE)
ActiveBitmap(effect) == IF effect = "CHOKE" THEN "CHOKE" ELSE "FREEZE_ACTIVE"

\* DisplayManager::updateDisplay(): the bitmap it shows
updateDisplay(last, freezeActive, chokeActive) ==
    IF last = "FREEZE" /\ freezeActive THEN "FREEZE_ACTIVE"
    ELSE IF last = "CHOKE" /\ chokeActive THEN "CHOKE"
    ELSE IF freezeActive THEN "FREEZE_ACTIVE"
    ELSE IF chokeActive THEN "CHOKE"
    ELSE "DEFAULT"

\* ChokeController::updateVisualFeedback(), FreezeController::
\* updateVisualFeedback(): the last activated effect and the bitmap they
\* leave.  d: the two before the call; quantized: the length mode
updateVisualFeedback(effect, d, enabled, quantized, freezeActive, chokeActive) ==
    LET rising == IF enabled /\ d.last # effect
                     THEN [last |-> effect, shown |-> ActiveBitmap(effect)]
                     ELSE d
    IN  IF ~enabled /\ rising.last = effect /\ quantized
           THEN [last |-> "NONE",
                 shown |-> updateDisplay("NONE", freezeActive, chokeActive)]
           ELSE rising

\* the same call: whether it sets the LED, the last activated effect and
\* the display (the rising-edge branch, or the falling-edge branch with
\* QUANTIZED length)
feedbackPushes(effect, d, enabled, quantized) ==
    \/ enabled /\ d.last # effect
    \/ ~enabled /\ d.last = effect /\ quantized

\* The handlers below are followed with FREE onset and FREE length, where
\* they take no sample position; each is one step of the control thread.
FreeModes ==
    /\ choke.m_onsetMode = "FREE" /\ choke.m_lengthMode = "FREE"
    /\ freeze.m_onsetMode = "FREE" /\ freeze.m_lengthMode = "FREE"

\* processInputCommands(), a press of the CHOKE key: handleButtonPress
\* enables the engine, then setLastActivatedEffect(CHOKE) and showChoke()
DisplayChokePress ==
    /\ ctl = <<>> /\ FreeModes
    /\ ~choke.m_isEnabled
    /\ choke' = [choke EXCEPT !.m_targetGain = 0, !.m_isEnabled = TRUE]
    /\ m_lastActivatedEffect' = "CHOKE"
    /\ shown' = ActiveBitmap("CHOKE")
    /\ engagedOrder' = Append(engagedOrder, "CHOKE")
    /\ hist' = [NoHist EXCEPT !.op = "press", !.f = "CHOKE"]
    /\ UNCHANGED <<tvars, qvars, svars, freeze, s_effects, s_numEffects,
                   ctl, loc>>

\* processInputCommands(), a press of the FREEZE key
DisplayFreezePress ==
    /\ ctl = <<>> /\ FreeModes
    /\ ~freeze.m_isEnabled
    /\ freeze' = [FreezeEngaged(freeze) EXCEPT !.m_readPos = freeze.m_writePos,
                                               !.m_isEnabled = TRUE]
    /\ m_lastActivatedEffect' = "FREEZE"
    /\ shown' = ActiveBitmap("FREEZE")
    /\ engagedOrder' = Append(engagedOrder, "FREEZE")
    /\ hist' = [NoHist EXCEPT !.op = "press", !.f = "FREEZE"]
    /\ UNCHANGED <<tvars, qvars, svars, choke, s_effects, s_numEffects,
                   ctl, loc>>

\* processInputCommands(), a release: handleButtonRelease cancels the
\* scheduled onset and returns false, EffectManager::executeCommand
\* disables the engine, then setLastActivatedEffect(NONE), updateDisplay()
DisplayRelease(effect) ==
    /\ ctl = <<>> /\ FreeModes
    /\ IF effect = "CHOKE" THEN choke.m_isEnabled ELSE freeze.m_isEnabled
    /\ choke' = IF effect = "CHOKE"
                   THEN [choke EXCEPT !.m_onsetAtSample = 0,
                                      !.m_targetGain = 1,
                                      !.m_isEnabled = FALSE]
                   ELSE choke
    /\ freeze' = IF effect = "FREEZE"
                    THEN [freeze EXCEPT !.m_onsetAtSample = 0,
                                        !.m_isEnabled = FALSE]
                    ELSE freeze
    /\ m_lastActivatedEffect' = "NONE"
    /\ shown' = updateDisplay("NONE", freeze'.m_isEnabled, choke'.m_isEnabled)
    /\ engagedOrder' = SelectSeq(engagedOrder, LAMBDA e : e # effect)
    /\ hist' = [NoHist EXCEPT !.op = "release", !.f = effect]
    /\ UNCHANGED <<tvars, qvars, svars, s_effects, s_numEffects, ctl, loc>>

\* updateEffectHandlers(): the CHOKE controller's updateVisualFeedback(),
\* then the FREEZE controller's; the STUTTER controller's sets its LED only
UpdateEffectHandlers ==
    /\ ctl = <<>>
    /\ LET d0 == [last |-> m_lastActivatedEffect, shown |-> shown]
           d1 == updateVisualFeedback("CHOKE", d0, choke.m_isEnabled,
                     choke.m_lengthMode = "QUANTIZED",
                     freeze.m_isEnabled, choke.m_isEnabled)
           d2 == updateVisualFeedback("FREEZE", d1, freeze.m_isEnabled,
                     freeze.m_lengthMode = "QUANTIZED",
                     freeze.m_isEnabled, choke.m_isEnabled)
           updated == (IF feedbackPushes("CHOKE", d0, choke.m_isEnabled,
                                        choke.m_lengthMode = "QUANTIZED")
                          THEN <<"CHOKE">> ELSE <<>>)
                      \o (IF feedbackPushes("FREEZE", d1, freeze.m_isEnabled,
                                            freeze.m_lengthMode = "QUANTIZED")
                             THEN <<"FREEZE">> ELSE <<>>)
       IN  /\ m_lastActivatedEffect' = d2.last
           /\ shown' = d2.shown
           \* ghost: the controllers that pushed an update, and whether the
           \* previous step of the behaviour was this function as well
           /\ hist' = [NoHist EXCEPT !.op = "updateEffectHandlers",
                                     !.arg = updated,
                                     !.f = IF hist.op = "updateEffectHandlers"
                                              THEN "idle" ELSE ""]
    /\ UNCHANGED <<tvars, qvars, svars, cvars, engagedOrder, s_effects,
                   s_numEffects, ctl, loc>>

-----------------------------------------------------------------------------
(* The schedule methods of CHOKE and FREEZE, called as a whole              *)

\* the scheduled samples handed to the engines, counted from the sample
\* position of the call: the position itself, the first and the last
\* sample of the next audio block, and the first sample of the block after
ScheduleOffsets ==
    {0, AUDIO_BLOCK_SAMPLES, 2 * AUDIO_BLOCK_SAMPLES - 1,
     2 * AUDIO_BLOCK_SAMPLES}

ScheduleFields == {"m_onsetAtSample", "m_releaseAtSample"}

\* no sample is scheduled in the engine
NoneScheduled(e) == e.m_onsetAtSample = 0 /\ e.m_releaseAtSample = 0

\* scheduleOnset(sample), scheduleRelease(sample) of either engine, called
\* while the other engine has no sample scheduled
ScheduleCall ==
    /\ ctl = <<>>
    /\ \E f \in ScheduleFields, d \in ScheduleOffsets :
          \/ /\ NoneScheduled(freeze)
             /\ choke' = [choke EXCEPT ![f] = s_samplePosition + d]
             /\ UNCHANGED freeze
          \/ /\ NoneScheduled(choke)
             /\ freeze' = [freeze EXCEPT ![f] = s_samplePosition + d]
             /\ UNCHANGED choke
    /\ hist' = [NoHist EXCEPT !.op = "schedule"]
    /\ UNCHANGED <<tvars, qvars, svars, mvars, ctl, loc>>

\* cancelScheduledOnset() of either engine and cancelScheduledRelease() of
\* CHOKE; the FREEZE engine has no method that cancels a release
CancelCall ==
    /\ ctl = <<>>
    /\ \/ \E f \in ScheduleFields :
             /\ choke[f] # 0
             /\ choke' = [choke EXCEPT ![f] = 0]
             /\ UNCHANGED freeze
       \/ /\ freeze.m_onsetAtSample # 0
          /\ freeze' = [freeze EXCEPT !.m_onsetAtSample = 0]
          /\ UNCHANGED choke
    /\ hist' = [NoHist EXCEPT !.op = "cancel"]
    /\ UNCHANGED <<tvars, qvars, svars, mvars, ctl, loc>>

\* the state each schedule method of STUTTER stores after the sample
StutterWaitState ==
    [m_captureStartAtSample |-> "WAIT_CAPTURE_START",
     m_captureEndAtSample |-> "WAIT_CAPTURE_END",
     m_playbackOnsetAtSample |-> "WAIT_PLAYBACK_ONSET",
     m_playbackLengthAtSample |-> "WAIT_PLAYBACK_LENGTH"]

\* scheduleCaptureStart(sample), scheduleCaptureEnd(sample, stutterHeld),
\* schedulePlaybackOnset(sample), schedulePlaybackLength(sample), with the
\* first sample of the next block or of the block after it
StutterScheduleCall ==
    /\ ctl = <<>>
    /\ \E i \in 1..Len(StutterSchedule),
          d \in {AUDIO_BLOCK_SAMPLES, 2 * AUDIO_BLOCK_SAMPLES},
          held \in BOOLEAN :
          LET f == StutterSchedule[i]
          IN  /\ f # "m_captureEndAtSample" => held = stutter.m_stutterHeld
              /\ stutter' = [stutter EXCEPT
                                ![f] = s_samplePosition + d,
                                !.m_stutterHeld = held,
                                !.m_state = StutterWaitState[f]]
    /\ hist' = [NoHist EXCEPT !.op = "schedule"]
    /\ UNCHANGED <<tvars, qvars, cvars, mvars, m_funcHeld, m_stutterHeld,
                   stutterEnableKind, ctl, loc>>

-----------------------------------------------------------------------------
(* EffectManager                                                            *)

\* EffectManager::getEffect(id): the first entry with that id, or null
getEffect(effects, num, id) ==
    LET found == {i \in 0..(num - 1) : effects[i].id = id}
    IN  IF found = {}
           THEN "null"
           ELSE effects[CHOOSE i \in found : \A j \in found : i <= j].effect

\* a faulty registerEffect: without the search for a duplicate id
registerEffectTwice(effects, num, id, effect) ==
    IF effect = "null" \/ id = "NONE" \/ num >= MAX_EFFECTS
       THEN [ret |-> FALSE, effects |-> effects, num |-> num]
       ELSE [ret |-> TRUE,
             effects |-> [effects EXCEPT ![num] = [id |-> id,
                                                   effect |-> effect]],
             num |-> num + 1]

\* EffectManager::registerEffect(id, effect): what it returns, and the
\* registry it leaves
registerEffect(effects, num, id, effect) ==
    IF effect = "null" THEN [ret |-> FALSE, effects |-> effects, num |-> num]
    ELSE IF id = "NONE" THEN [ret |-> FALSE, effects |-> effects, num |-> num]
    ELSE IF num >= MAX_EFFECTS
       THEN [ret |-> FALSE, effects |-> effects, num |-> num]
    ELSE IF \E i \in 0..(num - 1) : effects[i].id = id
       THEN [ret |-> FALSE, effects |-> effects, num |-> num]
    ELSE [ret |-> TRUE,
          effects |-> [effects EXCEPT ![num] = [id |-> id,
                                                effect |-> effect]],
          num |-> num + 1]

\* the ids and engines handed to registerEffect: EffectID's enumerators, the
\* uint8_t value 5 that names none of them, and the null pointer
RegisterIds == {"NONE", "STUTTER", "FREEZE", "CHOKE", "FUNC", "ID5"}
RegisterEngines == {"null", "choke"}

\* the calls of registerEffect: every id with the null pointer and with the
\* choke engine, and setup()'s registration of the freeze engine
RegisterCalls ==
    (RegisterIds \X RegisterEngines) \cup {<<"FREEZE", "freeze">>}

\* the kinds of command handed to executeCommand: CommandType's
\* enumerators and the uint8_t value 9 that names none of them
ExecuteTypes ==
    {"NONE", "EFFECT_TOGGLE", "EFFECT_ENABLE", "EFFECT_DISABLE",
     "EFFECT_SET_PARAM", "TYPE9"}

\* a faulty executeCommand: an unknown kind of command toggles the effect
dispatchesUnknown(type) == TRUE

\* executeCommand(): the switch has a case for the kind of command
dispatches(type) ==
    type \in {"EFFECT_TOGGLE", "EFFECT_ENABLE", "EFFECT_DISABLE",
              "EFFECT_SET_PARAM"}

\* AudioEffectChoke after enable(), disable(), toggle(); setParameter() is
\* AudioEffectBase's, which does nothing
ChokeAfter(type, c) ==
    LET on == [c EXCEPT !.m_targetGain = 0, !.m_isEnabled = TRUE]
        off == [c EXCEPT !.m_targetGain = 1, !.m_isEnabled = FALSE]
    IN  IF type = "EFFECT_ENABLE" THEN on
        ELSE IF type = "EFFECT_DISABLE" THEN off
        ELSE IF type = "EFFECT_SET_PARAM" THEN c
        ELSE IF c.m_isEnabled THEN off ELSE on

\* AudioEffectFreeze after enable(), disable(), toggle()
FreezeAfter(type, z) ==
    LET on == [FreezeEngaged(z) EXCEPT !.m_readPos = z.m_writePos,
                                       !.m_isEnabled = TRUE]
        off == [z EXCEPT !.m_isEnabled = FALSE]
    IN  IF type = "EFFECT_ENABLE" THEN on
        ELSE IF type = "EFFECT_DISABLE" THEN off
        ELSE IF type = "EFFECT_SET_PARAM" THEN z
        ELSE IF z.m_isEnabled THEN off ELSE on

\* EffectManager::registerEffect(id, effect), one call
RegisterEffect ==
    /\ ctl = <<>>
    /\ \E call \in RegisterCalls :
          LET r == registerEffect(s_effects, s_numEffects, call[1], call[2])
          IN  /\ s_effects' = r.effects
              /\ s_numEffects' = r.num
              /\ hist' = [NoHist EXCEPT !.op = "registerEffect",
                                        !.v = IF r.ret THEN 1 ELSE 0,
                                        !.arg = call]
    /\ UNCHANGED <<tvars, qvars, svars, cvars, m_lastActivatedEffect, shown,
                   engagedOrder, ctl, loc>>

\* EffectManager::executeCommand(cmd), one call
ExecuteCommand ==
    /\ ctl = <<>>
    /\ \E type \in ExecuteTypes, target \in RegisterIds :
          LET effect == getEffect(s_effects, s_numEffects, target)
              done == type # "NONE" /\ effect # "null" /\ dispatches(type)
          IN  /\ choke' = IF done /\ effect = "choke"
                             THEN ChokeAfter(type, choke) ELSE choke
              /\ freeze' = IF done /\ effect = "freeze"
                              THEN FreezeAfter(type, freeze) ELSE freeze
              /\ hist' = [NoHist EXCEPT !.op = "executeCommand",
                                        !.v = IF type = "NONE" \/ done
                                                 THEN 1 ELSE 0,
                                        !.arg = <<type, target>>]
    /\ UNCHANGED <<tvars, qvars, svars, mvars, ctl, loc>>

-----------------------------------------------------------------------------
(* The MIDI clock and transport, on the control thread                     *)

\* TimeKeeper::incrementTick(), as processClockTicks calls it
IncrementTick ==
    /\ ctl = <<>>
    /\ tickCalls < MaxTicks
    /\ LET r == incrementTick(s_tickInBeat, s_beatNumber)
       IN  /\ s_tickInBeat' = r.tick
           /\ s_beatNumber' = r.beat
           /\ s_beatFlag' = (r.flag \/ s_beatFlag)
    /\ tickCalls' = tickCalls + 1
    /\ wrapsSincePoll' =
           IF s_tickInBeat = MIDI_PPQN - 1 /\ wrapsSincePoll < MaxWraps
              THEN wrapsSincePoll + 1 ELSE wrapsSincePoll
    /\ hist' = [NoHist EXCEPT !.op = "tick"]
    /\ UNCHANGED <<qvars, mvars, s_samplePosition, s_transportState,
                   s_samplesPerBeat, globalQuantization, svars, cvars,
                   ctl, loc>>

\* the tick periods handed to syncToMIDIClock: those of the tests (5000,
\* 17857, 20833, 27778, 100000), the ends of the accepted range (7558, 7559,
\* 94483, 94484), and the long periods of a uint32_t argument
SyncPeriods ==
    {<<4, 0>>, <<14, 357>>, <<16, 833>>,
     <<22, 278>>, <<80, 0>>,
     <<6, 58>>, <<6, 59>>,
     <<75, 733>>, <<75, 734>>,
     <<2000000, 0>>, <<3246391, 2>>,
     <<3246391, 3>>, <<3435973, 1045>>}

\* TimeKeeper::syncToMIDIClock(tickPeriodUs)
SyncToMIDIClock ==
    /\ ctl = <<>>
    /\ \E p \in SyncPeriods :
          /\ s_samplesPerBeat' = syncToMIDIClock(p, s_samplesPerBeat)
          /\ hist' = [NoHist EXCEPT !.op = "sync", !.arg = p]
    /\ UNCHANGED <<qvars, mvars, s_samplePosition, s_tickInBeat, s_beatNumber,
                   s_transportState, tickCalls, s_beatFlag, wrapsSincePoll,
                   globalQuantization, svars,
                   cvars, ctl, loc>>

\* processTransportEvents(), MidiEvent::STOP and MidiEvent::CONTINUE:
\* setTransportState(state).  The handler's own s_transportActive is true
\* exactly when the state it has set is PLAYING.
TransportSet(event, state) ==
    /\ ctl = <<>>
    /\ s_transportState' = state
    /\ hist' = [NoHist EXCEPT !.op = event]
    /\ UNCHANGED <<qvars, mvars, s_samplePosition, s_tickInBeat, s_beatNumber,
                   tickCalls, s_beatFlag, wrapsSincePoll, s_samplesPerBeat,
                   globalQuantization, svars, cvars, ctl, loc>>

\* a faulty START: the transport runs on, the timeline is kept
TransportStartKeep == TransportSet("START", "PLAYING")

\* processTransportEvents(), MidiEvent::START: TimeKeeper::reset(), then
\* setTransportState(PLAYING)
TransportStart ==
    /\ ctl = <<>>
    /\ s_samplePosition' = 0
    /\ s_beatNumber' = 0
    /\ s_tickInBeat' = 0
    /\ s_samplesPerBeat' = DEFAULT_SAMPLES_PER_BEAT
    /\ s_transportState' = "PLAYING"
    /\ tickCalls' = 0
    /\ hist' = [NoHist EXCEPT !.op = "START", !.v = s_samplePosition,
                              !.arg = <<s_beatNumber, s_tickInBeat>>]
    /\ UNCHANGED <<qvars, mvars, s_beatFlag, wrapsSincePoll, globalQuantization,
                   svars, cvars, ctl, loc>>

\* TimeKeeper::pollBeatFlag(), as updateBeatLed calls it
PollBeatFlag ==
    /\ ctl = <<>>
    /\ LET r == pollBeatFlag(s_beatFlag)
       IN  /\ s_beatFlag' = r.flag
           /\ hist' = [NoHist EXCEPT !.op = "poll",
                                     !.v = IF r.ret THEN 1 ELSE 0,
                                     !.arg = <<wrapsSincePoll>>]
    /\ wrapsSincePoll' = 0
    /\ UNCHANGED <<qvars, mvars, s_samplePosition, s_tickInBeat, s_beatNumber,
                   s_transportState, tickCalls, s_samplesPerBeat,
                   globalQuantization, svars, cvars, ctl, loc>>

TransportStop == TransportSet("STOP", "STOPPED")
TransportContinue == TransportSet("CONTINUE", "PLAYING")

\* a faulty reset: the tempo is kept
ResetKeepTempo ==
    /\ ctl = <<>>
    /\ s_samplePosition' = 0
    /\ s_beatNumber' = 0
    /\ s_tickInBeat' = 0
    /\ s_transportState' = "STOPPED"
    /\ tickCalls' = 0
    /\ hist' = [NoHist EXCEPT !.op = "reset", !.v = s_samplePosition,
                              !.arg = <<s_beatNumber, s_tickInBeat,
                                        s_samplesPerBeat, s_transportState>>]
    /\ UNCHANGED <<qvars, mvars, s_samplesPerBeat, s_beatFlag, wrapsSincePoll,
                   globalQuantization, svars, cvars, ctl, loc>>

\* TimeKeeper::reset(), called on its own
Reset ==
    /\ ctl = <<>>
    /\ s_samplePosition' = 0
    /\ s_beatNumber' = 0
    /\ s_tickInBeat' = 0
    /\ s_samplesPerBeat' = DEFAULT_SAMPLES_PER_BEAT
    /\ s_transportState' = "STOPPED"
    /\ tickCalls' = 0
    /\ hist' = [NoHist EXCEPT !.op = "reset", !.v = s_samplePosition,
                              !.arg = <<s_beatNumber, s_tickInBeat,
                                        s_samplesPerBeat, s_transportState>>]
    /\ UNCHANGED <<qvars, mvars, s_beatFlag, wrapsSincePoll, globalQuantization,
                   svars, cvars, ctl, loc>>

\* TimeKeeper::incrementSamples(numSamples), called as the tests call it
IncrementSamples ==
    /\ ctl = <<>>
    /\ \E n \in SampleSteps :
          /\ s_samplePosition + n <= MaxQueryPos
          /\ s_samplePosition' = incrementSamples(s_samplePosition, n)
    /\ hist' = [NoHist EXCEPT !.op = "incrementSamples"]
    /\ UNCHANGED <<qvars, mvars, s_tickInBeat, s_beatNumber, s_transportState,
                   tickCalls, s_beatFlag, wrapsSincePoll, s_samplesPerBeat,
                   globalQuantization, svars, cvars, ctl, loc>>

\* a call of a query of the TimeKeeper: name and returned value are kept
Query(name, value) ==
    /\ ctl = <<>>
    /\ hist' = [NoHist EXCEPT !.op = name, !.v = value]
    /\ UNCHANGED <<qvars, mvars, tvars, svars, cvars, ctl, loc>>

-----------------------------------------------------------------------------
(* Initial states and specifications                                        *)

\* The TimeKeeper states the behaviours start from: a session that has run
\* StartBlocks audio blocks, clocked at a tick period of 10008 microseconds
\* (syncToMIDIClock: 10008 * 24 * 44100 / 1000000 = 10592 samples per beat),
\* on the 1/32 grid, at a tick of the beat.  A tick is 441 samples and a
\* grid step 1324: the next grid line is 1324 samples from tick 0, 442 from
\* tick 2 and 1 from tick 3.
StartTempos == {10592}

-----------------------------------------------------------------------------
(* MidiIO's handlers on the I/O thread and the control loop that drains     *)
(* its two queues                                                           *)

\* onClock(): the tick is pushed, whatever the transport does
OnClock ==
    /\ Len(clockQueue) < MaxQueued
    /\ clockQueue' = Append(clockQueue, transportRunning)
    /\ hist' = [NoHist EXCEPT !.op = "onClock"]
    /\ UNCHANGED <<writeIdx, readIdx, buffer, prod, cons, pushed, popped,
                   lastPush, eventQueue, transportRunning, gvars>>
    /\ UNCHANGED <<tvars, svars, cvars, mvars, ctl, loc>>

\* onStart(), onStop(), onContinue()
OnTransport ==
    /\ Len(eventQueue) < MaxQueued
    /\ \E event \in {"START", "STOP", "CONTINUE"} :
          /\ transportRunning' = (event # "STOP")
          /\ eventQueue' = Append(eventQueue, event)
          /\ hist' = [NoHist EXCEPT !.op = "onTransport", !.f = event]
    /\ UNCHANGED <<writeIdx, readIdx, buffer, prod, cons, pushed, popped,
                   lastPush, clockQueue, gvars>>
    /\ UNCHANGED <<tvars, svars, cvars, mvars, ctl, loc>>

\* threadLoop(): an iteration comes to processTransportEvents(), and
\* processClockTicks() follows it; ctl holds the two loops still to run
ThreadLoop ==
    /\ ctl = <<>>
    /\ ctl' = <<[op |-> "popEvent", o |-> "", f |-> "", v |-> 0],
                [op |-> "popClock", o |-> "", f |-> "", v |-> 0]>>
    /\ hist' = NoHist
    /\ UNCHANGED <<qvars, tvars, svars, cvars, mvars, loc>>

\* processTransportEvents(): one turn of while (MidiIO::popEvent(event)).
\* s_transportActive is true exactly when the state set is PLAYING.
ProcessTransportEvents ==
    /\ ctl # <<>>
    /\ Head(ctl).op = "popEvent"
    /\ IF eventQueue = <<>>
          THEN /\ ctl' = Tail(ctl)
               /\ hist' = NoHist
               /\ UNCHANGED <<eventQueue, tvars>>
          ELSE LET event == Head(eventQueue)
               IN  /\ eventQueue' = Tail(eventQueue)
                   /\ ctl' = ctl
                   /\ hist' = [NoHist EXCEPT !.op = "popEvent", !.f = event]
                   /\ s_transportState' = IF event = "STOP"
                                              THEN "STOPPED" ELSE "PLAYING"
                   /\ IF event = "START"
                         THEN /\ s_samplePosition' = 0
                              /\ s_beatNumber' = 0
                              /\ s_tickInBeat' = 0
                              /\ s_samplesPerBeat' = DEFAULT_SAMPLES_PER_BEAT
                              /\ tickCalls' = 0
                         ELSE UNCHANGED <<s_samplePosition, s_beatNumber,
                                          s_tickInBeat, s_samplesPerBeat,
                                          tickCalls>>
                   /\ UNCHANGED <<s_beatFlag, wrapsSincePoll,
                                  globalQuantization>>
    /\ UNCHANGED <<writeIdx, readIdx, buffer, prod, cons, pushed, popped,
                   lastPush, clockQueue, transportRunning, gvars>>
    /\ UNCHANGED <<svars, cvars, mvars, loc>>

\* processClockTicks(): one turn of while (MidiIO::popClock(clockMicros)),
\* with if (!s_transportActive) continue.
\* ghost: whether the tick arrived with the transport running, and
\* whether incrementTick() was called for it
ProcessClockTicks ==
    /\ ctl # <<>>
    /\ Head(ctl).op = "popClock"
    /\ IF clockQueue = <<>>
          THEN /\ ctl' = Tail(ctl)
               /\ hist' = NoHist
               /\ UNCHANGED <<clockQueue, tvars>>
          ELSE LET counted == s_transportState = "PLAYING"
                   r == incrementTick(s_tickInBeat, s_beatNumber)
               IN  /\ counted => tickCalls < MaxLoopTicks
                   /\ clockQueue' = Tail(clockQueue)
                   /\ ctl' = ctl
                   /\ hist' = [NoHist EXCEPT
                                 !.op = "popClock",
                                 !.arg = <<Head(clockQueue), counted>>]
                   /\ IF counted
                         THEN /\ s_tickInBeat' = r.tick
                              /\ s_beatNumber' = r.beat
                              /\ s_beatFlag' = (r.flag \/ s_beatFlag)
                              /\ tickCalls' = tickCalls + 1
                              /\ wrapsSincePoll' =
                                    IF /\ s_tickInBeat = MIDI_PPQN - 1
                                       /\ wrapsSincePoll < MaxWraps
                                       THEN wrapsSincePoll + 1
                                       ELSE wrapsSincePoll
                         ELSE UNCHANGED <<s_tickInBeat, s_beatNumber,
                                          s_beatFlag, tickCalls,
                                          wrapsSincePoll>>
                   /\ UNCHANGED <<s_samplePosition, s_transportState,
                                  s_samplesPerBeat, globalQuantization>>
    /\ UNCHANGED <<writeIdx, readIdx, buffer, prod, cons, pushed, popped,
                   lastPush, eventQueue, transportRunning, gvars>>
    /\ UNCHANGED <<svars, cvars, mvars, loc>>

\* the clock of a session before its first beat is complete
ClockRunning ==
    /\ s_beatNumber = 0
    /\ tickCalls = s_tickInBeat    \* s_tickInBeat is set before this
    /\ s_beatFlag = FALSE
    /\ wrapsSincePoll = 0
    /\ s_transportState = "PLAYING"

TimeInit(ticks) ==
    /\ s_samplePosition = StartBlocks * AUDIO_BLOCK_SAMPLES
    /\ s_samplesPerBeat \in StartTempos
    /\ globalQuantization = "QUANT_32"
    /\ s_tickInBeat \in ticks
    /\ ClockRunning

\* TimeKeeper::reset(): the state before any tick
TimeReset ==
    /\ s_samplePosition = 0
    /\ s_samplesPerBeat = DEFAULT_SAMPLES_PER_BEAT
    /\ globalQuantization = "QUANT_16"
    /\ s_tickInBeat = 0
    /\ s_beatNumber = 0
    /\ tickCalls = 0
    /\ s_beatFlag = FALSE
    /\ wrapsSincePoll = 0
    /\ s_transportState = "STOPPED"

\* the FREEZE engine after k audio blocks of passthrough
RECURSIVE FreezeRan(_)
FreezeRan(k) ==
    IF k = 0 THEN FreezeConstructed ELSE FreezeRecord(FreezeRan(k - 1))

\* EffectManager::s_effects, zero-initialized, and with the registrations of
\* setup(): STUTTER, FREEZE, CHOKE
NoEffects == [i \in 0..(MAX_EFFECTS - 1) |-> [id |-> "NONE", effect |-> "null"]]
SetupEffects ==
    [NoEffects EXCEPT ![0] = [id |-> "STUTTER", effect |-> "stutter"],
                      ![1] = [id |-> "FREEZE", effect |-> "freeze"],
                      ![2] = [id |-> "CHOKE", effect |-> "choke"]]

\* the engines as constructed and DisplayManager::initialize(); the
\* registry as registered
EnginesBuilt(registered) ==
    /\ m_lastActivatedEffect = "NONE"
    /\ shown = "DEFAULT"
    /\ engagedOrder = <<>>
    /\ s_effects = IF registered THEN SetupEffects ELSE NoEffects
    /\ s_numEffects = IF registered THEN 3 ELSE 0

EnginesInit ==
    /\ EnginesBuilt(TRUE)
    /\ stutter = StutterConstructed
    /\ freeze = FreezeRan(s_samplePosition \div AUDIO_BLOCK_SAMPLES)
    /\ m_funcHeld = FALSE
    /\ m_stutterHeld = FALSE
    /\ stutterEnableKind \in {"EFFECT_ENABLE", "STUTTER_ENABLE"}
    /\ choke = ChokeConstructed
    /\ ctl = <<>>
    /\ loc = NoLoc
    /\ hist = NoHist

QIdle == QInit /\ writeIdx = 0

\* the queue, producer and consumer interleaved step by step
InitQueue == QInit /\ TimeReset /\ EnginesInit

NextQueue ==
    \/ PushCall
    \/ PushCheck
    \/ PushStoreLo
    \/ PushStoreHi
    \/ PushPublish
    \/ PopCall
    \/ PopCheck
    \/ PopLoadLo
    \/ PopLoadHi
    \/ PopPublish

SpecQueue == InitQueue /\ [][NextQueue]_vars

\* the STUTTER engine, its controller and the audio interrupt
InitStutter == QIdle /\ TimeInit({2}) /\ EnginesInit

NextStutter ==
    \/ AudioBlock
    \/ HandleFuncPress
    \/ HandleFuncRelease
    \/ ProcessStutterCommand
    \/ SetStutterMode
    \/ CtlSet
    \/ CtlReadSample
    \/ CtlStoreSample
    \/ CtlReadWritePos
    \/ CtlStoreLength
    \/ CtlSetEndState

SpecStutter == InitStutter /\ [][NextStutter]_vars

\* the CHOKE engine, its controller and the audio interrupt
InitChoke == QIdle /\ TimeInit({0, 2, 3}) /\ EnginesInit

NextChoke ==
    \/ AudioBlock
    \/ ProcessChokeCommand
    \/ SetChokeMode
    \/ CtlSet
    \/ CtlReadSample
    \/ CtlStoreSample

SpecChoke == InitChoke /\ [][NextChoke]_vars

\* the same behaviours where the audio interrupt keeps firing until the
\* last block and a handler of the control thread runs to its end
SpecChokeLive ==
    /\ SpecChoke
    /\ WF_vars(AudioBlock)
    /\ WF_vars(CtlSet \/ CtlReadSample \/ CtlStoreSample)

\* The CHOKE engine over a quantized length: the modes are chosen before
\* the first block, and the behaviour runs past the scheduled release of a
\* press (1/32 of a beat of 10592 samples is 1324 samples, 11 blocks)
AudioBlockRelease ==
    AudioStep((StartBlocks + MaxReleaseBlocks) * AUDIO_BLOCK_SAMPLES, FALSE,
              -1)

NextChokeRelease ==
    \/ AudioBlockRelease
    \/ ProcessChokeCommand
    \/ s_samplePosition = StartBlocks * AUDIO_BLOCK_SAMPLES /\ SetChokeMode
    \/ CtlSet
    \/ CtlReadSample
    \/ CtlStoreSample

SpecChokeRelease == InitChoke /\ [][NextChokeRelease]_vars

\* The CHOKE engine over one grid step.  The TimeKeeper is as reset() leaves
\* it (120 BPM, 22050 samples per beat, the 1/16 grid of 5512 samples) with
\* 1000 samples counted, before or after the first tick of the beat.  A
\* handler of the control thread is preempted by at most MaxPreempt blocks;
\* presses and mode changes arrive during the first MaxPressBlocks blocks,
\* releases at any time.
TimeGrid ==
    /\ s_samplePosition = GridStart
    /\ s_samplesPerBeat = DEFAULT_SAMPLES_PER_BEAT
    /\ globalQuantization = "QUANT_16"
    /\ s_tickInBeat \in {0, 1}
    /\ ClockRunning

AudioBlockGrid ==
    AudioStep(GridStart + MaxGridBlocks * AUDIO_BLOCK_SAMPLES, FALSE,
              MaxPreempt)

GridPressTime ==
    s_samplePosition < GridStart + MaxPressBlocks * AUDIO_BLOCK_SAMPLES

InitChokeGrid ==
    QIdle /\ TimeGrid /\ EnginesInit /\ stutterEnableKind = "EFFECT_ENABLE"

NextChokeGrid ==
    \/ AudioBlockGrid
    \/ GridPressTime /\ ProcessChokeCommand
    \/ ~GridPressTime /\ ctl = <<>> /\ ChokeRelease
    \/ GridPressTime /\ SetChokeMode
    \/ CtlSet
    \/ CtlReadSample
    \/ CtlStoreSample

SpecChokeGrid == InitChokeGrid /\ [][NextChokeGrid]_vars

\* the TimeKeeper: audio blocks, MIDI clock ticks and transport events
InitClock == QIdle /\ TimeReset /\ EnginesInit

NextClock ==
    \/ AudioBlock
    \/ IncrementTick
    \/ TransportStart
    \/ TransportStop
    \/ TransportContinue

SpecClock == InitClock /\ [][NextClock]_vars

\* the tempo: processClockTicks' calls of syncToMIDIClock and incrementTick
\* between audio blocks, with the transport set running and reset()
NextSync ==
    \/ s_samplePosition < MaxSyncBlocks * AUDIO_BLOCK_SAMPLES /\ AudioBlock
    \/ tickCalls < MaxSyncTicks /\ IncrementTick
    \/ SyncToMIDIClock
    \/ TransportContinue
    \/ Reset

SpecSync == InitClock /\ [][NextSync]_vars

\* the display: the CHOKE and FREEZE keys, the control loop's
\* updateEffectHandlers() and the audio interrupt
InitDisplay == QIdle /\ TimeInit({2}) /\ EnginesInit

NextDisplay ==
    \/ AudioBlockAll
    \/ DisplayChokePress
    \/ DisplayFreezePress
    \/ DisplayRelease("CHOKE")
    \/ DisplayRelease("FREEZE")
    \/ UpdateEffectHandlers

SpecDisplay == InitDisplay /\ [][NextDisplay]_vars

\* the registry, from the start of setup(): registrations and commands
InitRegistry ==
    /\ QIdle
    /\ TimeReset
    /\ EnginesBuilt(FALSE)
    /\ stutter = StutterConstructed
    /\ freeze = FreezeConstructed
    /\ m_funcHeld = FALSE
    /\ m_stutterHeld = FALSE
    /\ stutterEnableKind = "EFFECT_ENABLE"
    /\ choke = ChokeConstructed
    /\ ctl = <<>>
    /\ loc = NoLoc
    /\ hist = NoHist

NextRegistry ==
    \/ RegisterEffect
    \/ ExecuteCommand

SpecRegistry == InitRegistry /\ [][NextRegistry]_vars

\* the beat and bar queries, after reset() and setSamplesPerBeat(spb)
InitQuery ==
    /\ QIdle
    /\ s_samplePosition = 0
    /\ s_samplesPerBeat \in QueryTempos
    /\ globalQuantization = "QUANT_16"
    /\ s_tickInBeat = 0
    /\ s_beatNumber = 0
    /\ tickCalls = 0
    /\ s_beatFlag = FALSE
    /\ wrapsSincePoll = 0
    /\ s_transportState = "STOPPED"
    /\ EnginesInit

NextQuery ==
    \/ IncrementSamples
    \/ Query("samplesToNextBeat",
             samplesToNextBeat(s_samplePosition, s_samplesPerBeat))
    \/ Query("samplesToNextBar",
             samplesToNextBar(s_samplePosition, s_samplesPerBeat))

SpecQuery == InitQuery /\ [][NextQuery]_vars

\* the beat flag: clock ticks, updateBeatLed's polls and START events
NextBeat ==
    \/ IncrementTick
    \/ PollBeatFlag
    \/ TransportStart

SpecBeat == InitClock /\ [][NextBeat]_vars

\* the transport: MidiIO's handlers and the iterations of the control loop
NextTransport ==
    \/ OnClock
    \/ OnTransport
    \/ ThreadLoop
    \/ ProcessTransportEvents
    \/ ProcessClockTicks

SpecTransport == InitClock /\ [][NextTransport]_vars

\* the gain ramp of CHOKE: update() sample by sample, and the presses and
\* releases of the CHOKE key (FREE onset, FREE length) between two blocks
\* or in the middle of a handler; the interrupt runs update() to its end
NextGain ==
    \/ GainUpdate
    \/ ApplyGainRamp
    \/ ramp.channel = "none" /\ ProcessChokeCommand
    \/ ramp.channel = "none" /\ CtlSet

SpecGain == InitChoke /\ [][NextGain]_vars

\* the FREEZE engine, its controller and the audio interrupt
InitFreeze == QIdle /\ TimeInit({2}) /\ EnginesInit

NextFreeze ==
    \/ AudioBlockAll
    \/ ProcessFreezeCommand
    \/ SetFreezeMode
    \/ CtlSet
    \/ CtlReadSample
    \/ CtlStoreSample
    \/ CtlFreezeLoadWritePos
    \/ CtlFreezeStoreReadPos

SpecFreeze == InitFreeze /\ [][NextFreeze]_vars

\* CHOKE and FREEZE together, operated one at a time: an engine receives
\* commands and mode changes while the other one is at rest
ChokeAtRest ==
    /\ choke = ChokeConstructed
    /\ loc.released # "choke"

FreezeAtRest ==
    /\ ~freeze.m_isEnabled
    /\ freeze.m_lengthMode = "FREE"
    /\ freeze.m_onsetMode = "FREE"
    /\ freeze.m_releaseAtSample = 0
    /\ freeze.m_onsetAtSample = 0
    /\ loc.released # "freeze"

InitEffects == QIdle /\ TimeInit({2}) /\ EnginesInit

NextEffects ==
    \/ AudioBlockAll
    \/ (FreezeAtRest /\ ProcessChokeCommand)
    \/ (FreezeAtRest /\ SetChokeMode)
    \/ (ChokeAtRest /\ ProcessFreezeCommand)
    \/ (ChokeAtRest /\ SetFreezeMode)
    \/ CtlSet
    \/ CtlReadSample
    \/ CtlStoreSample
    \/ CtlFreezeLoadWritePos
    \/ CtlFreezeStoreReadPos

SpecEffects == InitEffects /\ [][NextEffects]_vars

\* STUTTER with samples scheduled around the block boundaries
NextStutterSchedule ==
    \/ AudioStep((StartBlocks + MaxScheduleBlocks) * AUDIO_BLOCK_SAMPLES,
                 FALSE, -1)
    \/ StutterScheduleCall

SpecStutterSchedule == InitStutter /\ [][NextStutterSchedule]_vars

\* CHOKE and FREEZE with samples scheduled around the block boundaries
AudioBlockSchedule ==
    AudioStep((StartBlocks + MaxScheduleBlocks) * AUDIO_BLOCK_SAMPLES, TRUE,
              -1)

NextSchedule ==
    \/ AudioBlockSchedule
    \/ ScheduleCall
    \/ CancelCall

SpecSchedule == InitEffects /\ [][NextSchedule]_vars

-----------------------------------------------------------------------------
(* Properties of the queue                                                  *)

\* C1: with one producer and one consumer interleaved at every access to a
\* slot or an index, the items popped are, in order, the first of the items
\* pushed, each read whole, and the consumer never reads a slot the producer
\* is still writing.
C1_FifoOrder ==
    /\ Len(popped) <= Len(pushed)
    /\ \A i \in 1..Len(popped) : popped[i] = pushed[i]
    /\ (cons.pc \in {"loadLo", "loadHi"}
        /\ prod.pc \in {"storeLo", "storeHi", "publish"})
       => Mask(cons.current_read) # Mask(prod.current_write)

\* the consumer loads a slot while the producer stores into a slot that it
\* uses for the second time
C1_Witness ==
    /\ Len(popped) >= SIZE - 1
    /\ cons.pc = "loadHi"
    /\ prod.pc = "storeHi"
    /\ prod.n > SIZE

\* C2: the queue never holds more than SIZE - 1 items, and push answers true
\* exactly when fewer than SIZE - 1 items are queued at the moment it
\* compares the indices; with SIZE = 4 it accepts three items and refuses
\* the fourth.
C2_Capacity ==
    /\ Queued <= capacity
    /\ Queued >= 0
    /\ lastPush.done => (lastPush.result <=> lastPush.queued < capacity)

\* a push was refused with SIZE - 1 items queued
C2_Witness ==
    /\ lastPush.done
    /\ ~lastPush.result
    /\ lastPush.queued = capacity
    /\ Queued = capacity

-----------------------------------------------------------------------------
(* Properties of the STUTTER engine                                         *)

Playing == {"PLAYING", "WAIT_PLAYBACK_LENGTH"}
Capturing == {"CAPTURING", "WAIT_CAPTURE_END"}

\* C3: between two handlers of the control thread, an engine that is in
\* PLAYING or WAIT_PLAYBACK_LENGTH has its read position inside the captured
\* loop: m_readPos < m_captureLength.
C3_ReadPosInLoop ==
    (ctl = <<>> /\ stutter.m_state \in Playing)
       => stutter.m_readPos < stutter.m_captureLength

\* C4: between two handlers of the control thread, an engine in IDLE_NO_LOOP
\* holds no loop: m_captureLength = 0.
C4_IdleNoLoopEmpty ==
    (ctl = <<>> /\ stutter.m_state = "IDLE_NO_LOOP")
       => stutter.m_captureLength = 0

\* C5: m_captureLength and m_writePos never exceed the buffer's length, and
\* no audio block writes or reads a buffer index outside 0 .. N - 1.
C5_InsideBuffer ==
    /\ stutter.m_captureLength <= STUTTER_BUFFER_SAMPLES
    /\ stutter.m_writePos <= STUTTER_BUFFER_SAMPLES
    /\ hist.wroteMax < STUTTER_BUFFER_SAMPLES
    /\ hist.readMax < STUTTER_BUFFER_SAMPLES

\* a block of playback has read the last index of a buffer captured full
C5_Witness ==
    /\ hist.op = "block"
    /\ stutter.m_captureLength = STUTTER_BUFFER_SAMPLES
    /\ stutter.m_writePos = STUTTER_BUFFER_SAMPLES
    /\ hist.readMax = STUTTER_BUFFER_SAMPLES - 1

\* C7: when a capture ends, at once, at its scheduled sample or because the
\* buffer is full, the engine goes to PLAYING if a loop was captured and the
\* STUTTER button is held, to IDLE_WITH_LOOP if a loop was captured and the
\* button is not held, and to IDLE_NO_LOOP if nothing was captured.
C7_AfterCapture ==
    hist.ended # "none"
       => stutter.m_state =
             IF stutter.m_captureLength > 0
                THEN IF m_stutterHeld THEN "PLAYING" ELSE "IDLE_WITH_LOOP"
                ELSE "IDLE_NO_LOOP"

\* C8: an audio block in which the buffer becomes full while the engine is
\* in CAPTURING or WAIT_CAPTURE_END leaves the engine in PLAYING or
\* IDLE_WITH_LOOP, with m_captureLength equal to the buffer's length and no
\* capture end scheduled.
C8_BufferFull ==
    hist.filled
       => /\ stutter.m_state \in {"PLAYING", "IDLE_WITH_LOOP"}
          /\ stutter.m_captureLength = STUTTER_BUFFER_SAMPLES
          /\ stutter.m_captureEndAtSample = 0

\* the buffer became full in WAIT_CAPTURE_END with a capture end pending,
\* and the engine went on to play
C8_Witness ==
    /\ hist.filled
    /\ hist.pending
    /\ stutter.m_state = "PLAYING"

\* C10: once the handler of a STUTTER release that found the engine in
\* WAIT_CAPTURE_START or WAIT_PLAYBACK_ONSET has returned, and until the
\* next STUTTER press, the scheduled field of that wait is 0 and the engine
\* is neither in CAPTURING nor in PLAYING.
C10_CancelledStaysCancelled ==
    /\ (ctl = <<>> /\ loc.cancelling = "captureStart")
          => /\ stutter.m_captureStartAtSample = 0
             /\ stutter.m_state \notin {"CAPTURING", "PLAYING"}
    /\ (ctl = <<>> /\ loc.cancelling = "playbackOnset")
          => /\ stutter.m_playbackOnsetAtSample = 0
             /\ stutter.m_state \notin {"CAPTURING", "PLAYING"}

-----------------------------------------------------------------------------
(* Properties of the CHOKE engine and of the scheduled fields               *)

\* C6: a CHOKE press with QUANTIZED onset taken on a beat boundary has the
\* effect engaged when the first audio block after the press has run.
C6_BoundaryPressEngages ==
    loc.boundary = "blockRun" => choke.m_isEnabled

\* C9: a scheduled sample that a handler stores into an engine, when it is
\* not 0, is not below the sample position at the moment of the store.
C9_ScheduledNotPast ==
    (hist.op = "storeSample" /\ hist.v # 0) => hist.v >= s_samplePosition

\* C11: a CHOKE or FREEZE release taken with QUANTIZED length changes no
\* field of the engines; once the handler of a release taken with FREE
\* length has returned, and until the next press of that effect, the effect
\* is disabled and has no onset scheduled, also when the audio interrupt
\* fired the scheduled onset while the release was being handled.
C11_Release ==
    /\ []((ctl = <<>> /\ loc.released = "choke")
             => (~choke.m_isEnabled /\ choke.m_onsetAtSample = 0))
    /\ []((ctl = <<>> /\ loc.released = "freeze")
             => (~freeze.m_isEnabled /\ freeze.m_onsetAtSample = 0))
    /\ [][hist'.op = "absorbed" => (choke' = choke /\ freeze' = freeze)]_vars

\* a FREEZE release with FREE length during which the scheduled onset fired
\* has returned, and an audio block has run since
C11_Witness ==
    /\ ctl = <<>>
    /\ loc.released = "freeze"
    /\ loc.raced
    /\ hist.op = "block"

\* C12: a CHOKE press taken with FREE onset and QUANTIZED length engages the
\* effect at once (muted and enabled before the handler reads the sample
\* position P), stores P + duration of the grid step as the release sample,
\* and the audio block that contains that sample leaves the effect disabled,
\* whether or not the button was released in between.
C12_FreeOnsetQuantizedLength ==
    /\ (loc.due = -1 /\ Len(ctl) = 2 /\ loc.preempted = 0)
          => (choke.m_isEnabled /\ choke.m_targetGain = 0)
    /\ (loc.due > 0 /\ hist.op = "storeSample"
                    /\ hist.f = "m_releaseAtSample")
          => hist.v = loc.due
    /\ (loc.due > 0 /\ hist.op = "block"
                    /\ s_samplePosition <= loc.due
                    /\ loc.due < s_samplePosition + AUDIO_BLOCK_SAMPLES)
          => ~choke.m_isEnabled

\* the press at sample 1000 on the 1/16 grid, button still held: the block
\* of samples 6504..6631 has run and the effect is disabled
C12_Witness ==
    /\ loc.due = 6512
    /\ hist.op = "block"
    /\ s_samplePosition = 6504
    /\ ctl = <<>>
    /\ ~choke.m_isEnabled
    /\ choke.m_releaseAtSample = 0

\* C13: at 22050 samples per beat on the 1/16 grid with a lookahead of 128,
\* a CHOKE press with QUANTIZED onset handled at sample position 1000, one
\* tick (918 samples) into the beat, finds 4512 samples to the next grid line
\* and stores 5384 as the onset sample.
C13_QuantizedOnsetExample ==
    (/\ hist.op = "storeSample"
     /\ hist.f = "m_onsetAtSample"
     /\ s_samplePosition = GridStart
     /\ s_tickInBeat = 1
     /\ s_samplesPerBeat = 22050
     /\ globalQuantization = "QUANT_16")
       => (SamplesToNext = 4512 /\ hist.v = 5384)

\* C14: when a capture that startCapture() began is ended by endCapture()
\* k samples later, k not above the buffer's length, the engine has written
\* k samples, and that is the capture length endCapture() stores.
C14_FreeCaptureLength ==
    /\ (hist.op = "readWritePos" /\ hist.v >= 0
                                 /\ hist.v <= STUTTER_BUFFER_SAMPLES)
          => loc.w = hist.v

\* C15: enable() applied to an engine that is enabled changes nothing the
\* audio output shows: a step of AudioEffectChoke::enable() leaves the CHOKE
\* engine as it was, and AudioEffectFreeze::enable() leaves the frozen read
\* position where it was.
C15_EnableWhenEnabled ==
    /\ []((hist.op = "storeReadPos" /\ freeze.m_isEnabled)
             => freeze.m_readPos = hist.v)
    /\ [][(/\ ctl # <<>>
           /\ choke.m_isEnabled
           /\ Head(ctl) \in {ChokeEnable[1], ChokeEnable[2]}
           /\ ctl' = Tail(ctl))
             => choke' = choke]_vars

\* C16: the FREEZE engine's write and read positions stay inside the buffer,
\* and whenever the engine goes from disabled to enabled, by enable() or by
\* the scheduled onset firing in update(), the read position it is enabled
\* with is the write position of that moment.
C16_FreezePositions ==
    /\ freeze.m_writePos \in 0..(FREEZE_BUFFER_SAMPLES - 1)
    /\ freeze.m_readPos \in 0..(FREEZE_BUFFER_SAMPLES - 1)
    /\ hist.op = "engage" => freeze.m_readPos = freeze.m_writePos
    /\ (hist.op = "block" /\ hist.f = "engage" /\ freeze.m_isEnabled)
          => hist.v = freeze.m_writePos

\* C17: while FREEZE is enabled, update() has recorded nothing since the
\* engagement and has left the write position where it was, and the block it
\* transmits next continues the loop of the last FREEZE_BUFFER_SAMPLES
\* samples recorded before the engagement, oldest first: after p samples
\* played (counted modulo the buffer length) its j-th sample is the sample
\* recorded (p + j - 1) modulo the buffer length places after the oldest.
C17_FrozenOutput ==
    (freeze.m_isEnabled /\ freeze.engaged.recorded >= FREEZE_BUFFER_SAMPLES)
       => /\ freeze.m_writePos = freeze.engaged.writePos
          /\ freeze.recorded = freeze.engaged.recorded
          /\ \A j \in 1..AUDIO_BLOCK_SAMPLES :
                FreezeOutput(freeze)[j] =
                    freeze.engaged.recorded - FREEZE_BUFFER_SAMPLES + 1
                    + ((freeze.played + j - 1) % FREEZE_BUFFER_SAMPLES)

\* C18: a STUTTER press command starts or schedules a capture exactly when
\* FUNC is held at that moment (pressed earlier, not released since); when
\* FUNC is not held it does nothing, or starts or schedules the playback of
\* the loop of an engine in IDLE_WITH_LOOP; and a FUNC press that follows a
\* STUTTER press starts nothing.
C18_FuncBeforeStutter ==
    /\ [][hist'.op = "stutterPress"
            => LET capture == {startCapture,
                               <<ReadSample(SamplesToNext)>>
                                   \o scheduleCaptureStart}
                   playback == {startPlayback,
                                <<ReadSample(SamplesToNext)>>
                                    \o schedulePlaybackOnset}
               IN  /\ (ctl' \in capture) <=> m_funcHeld
                   /\ ~m_funcHeld
                         => \/ ctl' = <<>>
                            \/ /\ ctl' \in playback
                               /\ stutter.m_state = "IDLE_WITH_LOOP"]_vars
    /\ [][(~m_funcHeld /\ m_funcHeld')
            => (ctl' = <<>> /\ stutter' = stutter)]_vars

\* C19: n calls of incrementTick after reset() leave beatNumber = n div 24
\* and tickInBeat = n mod 24, so that tickInBeat stays below 24 and a call
\* advances beatNumber, by 1, exactly when it is the 24th of its beat.
C19_TicksAndBeats ==
    /\ [](/\ s_beatNumber = tickCalls \div MIDI_PPQN
          /\ s_tickInBeat = tickCalls % MIDI_PPQN
          /\ s_tickInBeat \in 0..(MIDI_PPQN - 1))
    /\ [][hist'.op = "tick"
            => s_beatNumber' = s_beatNumber
                   + (IF tickCalls' % MIDI_PPQN = 0 THEN 1 ELSE 0)]_vars

\* 120 ticks after reset(): beat 5, bar 1, beat 1 of the bar
C19_Witness ==
    /\ tickCalls = 120
    /\ hist.op = "tick"
    /\ s_beatNumber = 5
    /\ getBarNumber = 1
    /\ getBeatInBar = 1

\* C20: no step of the system lowers the sample position.
C20_SamplePositionMonotone ==
    [][s_samplePosition' >= s_samplePosition]_vars

\* C21: syncToMIDIClock(t) stores samplesPerBeat = t * 24 * 44100 div
\* 1000000 when that value lies in 8000..100000, and otherwise leaves
\* samplesPerBeat unchanged; no other TimeKeeper state changes, and
\* samplesPerBeat stays in 8000..100000.  With t = 1250 * q + r the value
\* is 1323 * q + (1323 * r) div 1250, above 100000 as soon as q > 80.
C21_SyncRange ==
    /\ [][hist'.op = "sync" =>
            LET q == hist'.arg[1]
                exact == (1323 * q) + ((1323 * hist'.arg[2]) \div 1250)
            IN  /\ s_samplesPerBeat' =
                       IF q <= 80 /\ exact >= 8000 /\ exact <= 100000
                          THEN exact ELSE s_samplesPerBeat
                /\ UNCHANGED <<s_samplePosition, s_beatNumber, s_tickInBeat,
                               s_transportState>>]_vars
    /\ [](s_samplesPerBeat >= 8000 /\ s_samplesPerBeat <= 100000)

\* C22: every incrementTick that wraps tickInBeat from 23 to 0 sets the beat
\* flag; a pollBeatFlag returns true exactly when at least one such wrap
\* happened since the previous poll, and leaves the flag clear.
C22_BeatFlag ==
    /\ [][(hist'.op = "tick" /\ s_tickInBeat = 23 /\ s_tickInBeat' = 0)
            => s_beatFlag']_vars
    /\ [][hist'.op = "poll"
            => /\ (hist'.v = 1) <=> (wrapsSincePoll > 0)
               /\ ~s_beatFlag']_vars
    /\ [](s_beatFlag <=> wrapsSincePoll > 0)

\* a poll that returns true after two beats began without a poll between
C22_Witness ==
    /\ hist.op = "poll"
    /\ hist.v = 1
    /\ hist.arg = <<2>>
    /\ ~s_beatFlag

\* C23: processing START puts samplePosition, beatNumber and tickInBeat
\* back to 0 and leaves the transport PLAYING; STOP sets it STOPPED and
\* CONTINUE sets it PLAYING, neither changing samplePosition, beatNumber or
\* tickInBeat.
C23_TransportEvents ==
    /\ [][hist'.op = "START"
            => /\ s_samplePosition' = 0
               /\ s_beatNumber' = 0
               /\ s_tickInBeat' = 0
               /\ s_transportState' = "PLAYING"]_vars
    /\ [][hist'.op = "STOP"
            => /\ s_transportState' = "STOPPED"
               /\ UNCHANGED <<s_samplePosition, s_beatNumber,
                              s_tickInBeat>>]_vars
    /\ [][hist'.op = "CONTINUE"
            => /\ s_transportState' = "PLAYING"
               /\ UNCHANGED <<s_samplePosition, s_beatNumber,
                              s_tickInBeat>>]_vars

\* START handled after audio blocks and clock ticks, in the second beat
C23_Witness ==
    /\ hist.op = "START"
    /\ hist.v > 0
    /\ hist.arg = <<1, 5>>
    /\ s_samplePosition = 0
    /\ s_beatNumber = 0
    /\ s_tickInBeat = 0
    /\ s_transportState = "PLAYING"

C25_NextBeatExamples ==
    s_samplesPerBeat = 22050 =>
        /\ (hist.op = "samplesToNextBeat" /\ s_samplePosition = 0)
               => hist.v = 22050
        /\ (hist.op = "samplesToNextBeat" /\ s_samplePosition = 10000)
               => hist.v = 12050
        /\ (hist.op = "samplesToNextBeat" /\ s_samplePosition = 22000)
               => hist.v = 50
        /\ (hist.op = "samplesToNextBar" /\ s_samplePosition = 0)
               => (hist.v >= 88100 /\ hist.v <= 88300)

\* C26: reset() leaves samplePosition 0, beatNumber 0, tickInBeat 0,
\* samplesPerBeat 22050 and the transport STOPPED whatever the state before,
\* and a reset() that follows a reset() changes nothing a caller can read.
C26_Reset ==
    /\ [][hist'.op = "reset"
            => /\ s_samplePosition' = 0
               /\ s_beatNumber' = 0
               /\ s_tickInBeat' = 0
               /\ s_samplesPerBeat' = 22050
               /\ s_transportState' = "STOPPED"]_vars
    /\ [][(hist.op = "reset" /\ hist'.op = "reset")
            => UNCHANGED <<s_samplePosition, s_beatNumber, s_tickInBeat,
                           s_samplesPerBeat, s_transportState,
                           s_beatFlag>>]_vars

\* reset() in the second beat of a running transport at another tempo
C26_Witness ==
    /\ hist.op = "reset"
    /\ hist.v > 0
    /\ hist.arg = <<1, 5, 8000, "PLAYING">>
    /\ s_samplePosition = 0
    /\ s_beatNumber = 0
    /\ s_tickInBeat = 0
    /\ s_samplesPerBeat = 22050
    /\ s_transportState = "STOPPED"

\* C27: while an effect is engaged the display shows the bitmap of the
\* effect engaged most recently among those still engaged, and it shows the
\* default bitmap only when no effect is engaged.
C27_DisplayPriority ==
    /\ engagedOrder # <<>>
           => shown = ActiveBitmap(engagedOrder[Len(engagedOrder)])
    /\ shown = "DEFAULT" => engagedOrder = <<>>

\* C28: executeCommand with a target that is not registered, or with an
\* unknown kind of command, returns false and changes no engine and no
\* registry state; a command of type NONE returns true and changes nothing.
C28_InvalidCommand ==
    [][hist'.op = "executeCommand" =>
          LET type == hist'.arg[1]
              target == hist'.arg[2]
              known == type \in {"NONE", "EFFECT_TOGGLE", "EFFECT_ENABLE",
                                 "EFFECT_DISABLE", "EFFECT_SET_PARAM"}
              missing == \A i \in 0..(s_numEffects - 1) :
                            s_effects[i].id # target
          IN  /\ type = "NONE"
                    => /\ hist'.v = 1
                       /\ UNCHANGED <<stutter, choke, freeze, s_effects,
                                      s_numEffects>>
              /\ (type # "NONE" /\ (missing \/ ~known))
                    => /\ hist'.v = 0
                       /\ UNCHANGED <<stutter, choke, freeze, s_effects,
                                      s_numEffects>>]_vars

\* an unknown kind of command for a registered, engaged CHOKE, refused
C28_Witness ==
    /\ hist.op = "executeCommand"
    /\ hist.arg = <<"TYPE9", "CHOKE">>
    /\ hist.v = 0
    /\ getEffect(s_effects, s_numEffects, "CHOKE") = "choke"
    /\ choke.m_isEnabled

\* C29: registerEffect rejects a null engine, the NONE id, a duplicate id
\* and a fifth registration, returning false and leaving the registry as
\* it was, and accepts every other call; at most four effects are
\* registered, no id is registered twice, and an id that getEffect finds
\* keeps its engine.
C29_Registry ==
    /\ [][hist'.op = "registerEffect" =>
            LET id == hist'.arg[1]
                rejected ==
                    \/ hist'.arg[2] = "null"
                    \/ id = "NONE"
                    \/ \E i \in 0..(s_numEffects - 1) : s_effects[i].id = id
                    \/ s_numEffects = 4
            IN  /\ rejected => (hist'.v = 0 /\ UNCHANGED <<s_effects,
                                                           s_numEffects>>)
                /\ ~rejected => (hist'.v = 1
                                 /\ s_numEffects' = s_numEffects + 1)]_vars
    /\ [](/\ s_numEffects <= 4
          /\ \A i, j \in 0..(s_numEffects - 1) :
                s_effects[i].id = s_effects[j].id => i = j)
    /\ [][\A id \in RegisterIds :
            getEffect(s_effects, s_numEffects, id) # "null"
               => getEffect(s_effects', s_numEffects', id)
                     = getEffect(s_effects, s_numEffects, id)]_vars

\* a fifth registration, of an id not yet registered, refused
C29_Witness ==
    /\ hist.op = "registerEffect"
    /\ hist.arg = <<"ID5", "choke">>
    /\ hist.v = 0
    /\ s_numEffects = 4
    /\ getEffect(s_effects, s_numEffects, "ID5") = "null"
    /\ getEffect(s_effects, s_numEffects, "FREEZE") = "freeze"
    /\ getEffect(s_effects, s_numEffects, "CHOKE") = "choke"

\* C30: a push on a full queue returns false at once and drops only the
\* new item: the stored items and both indices are unchanged; a pop on an
\* empty queue returns false and changes nothing; every other push and
\* pop, also one that follows a refused one, goes on to store or load.
C30_FullAndEmpty ==
    [][/\ (prod.pc = "check" /\ prod'.pc # "check")
            => IF Queued = capacity
                  THEN /\ prod'.pc = "idle"
                       /\ lastPush'.result = FALSE
                       /\ UNCHANGED <<writeIdx, readIdx, buffer, pushed,
                                      popped>>
                  ELSE /\ prod'.pc = "storeLo"
                       /\ lastPush'.result = TRUE
       /\ (cons.pc = "check" /\ cons'.pc # "check")
            => IF Queued = 0
                  THEN /\ cons'.pc = "idle"
                       /\ UNCHANGED <<writeIdx, readIdx, buffer, pushed,
                                      popped>>
                  ELSE cons'.pc = "loadLo"]_vars

\* the fourth push was refused by the full queue, the fifth accepted after
\* a pop, and the four accepted items were popped in order
C30_Witness ==
    /\ prod.n = 5
    /\ prod.pc = "idle"
    /\ cons.pc = "idle"
    /\ pushed = <<Item(1), Item(2), Item(3), Item(5)>>
    /\ popped = pushed
    /\ writeIdx = readIdx

\* the scheduled sample v lies in the block that starts at sample s
DueIn(v, s) == v # 0 /\ s <= v /\ v < s + AUDIO_BLOCK_SAMPLES

\* C31: in the audio block that starts at sample s, a scheduled onset
\* (release) of CHOKE or FREEZE with value v fires exactly when v # 0 and
\* s <= v < s + 128: the effect becomes engaged (disengaged) and the field
\* is 0 after the block; a field that does not fire keeps its value, and
\* with neither field firing the effect stays as it was.  The release is
\* evaluated after the onset: with both firing in one block the effect is
\* engaged and then disengaged, and leaves the block disengaged.
C31_ScheduledFires ==
    [][hist'.op = "block" =>
          \A e \in {choke, freeze} :
             LET after == IF e = choke THEN choke' ELSE freeze'
                 s == s_samplePosition'
             IN  /\ IF DueIn(e.m_onsetAtSample, s)
                       THEN /\ after.m_onsetAtSample = 0
                            /\ \/ after.m_isEnabled
                               \/ DueIn(e.m_releaseAtSample, s)
                       ELSE after.m_onsetAtSample = e.m_onsetAtSample
                 /\ IF DueIn(e.m_releaseAtSample, s)
                       THEN after.m_releaseAtSample = 0 /\ ~after.m_isEnabled
                       ELSE after.m_releaseAtSample = e.m_releaseAtSample
                 /\ (~DueIn(e.m_onsetAtSample, s)
                        /\ ~DueIn(e.m_releaseAtSample, s))
                       => after.m_isEnabled = e.m_isEnabled]_vars

\* a block in which the scheduled onset of CHOKE fired while its release,
\* scheduled for the first sample of the next block, stayed pending, with
\* FREEZE engaged by an earlier block
C31_Witness ==
    /\ hist.op = "block"
    /\ choke.m_isEnabled
    /\ choke.m_onsetAtSample = 0
    /\ choke.m_releaseAtSample = s_samplePosition + AUDIO_BLOCK_SAMPLES
    /\ freeze.m_isEnabled
    /\ freeze.m_onsetAtSample = 0

\* C32: a scheduled sample of STUTTER (capture start, capture end, playback
\* onset, playback length) takes effect, and the field is cleared, in the
\* audio block whose range [s, s + 128) contains it, and in no other block.
C32_StutterInBlock ==
    [][hist'.op = "block" =>
          \A f \in {"m_captureStartAtSample", "m_captureEndAtSample",
                    "m_playbackOnsetAtSample", "m_playbackLengthAtSample"} :
             (stutter[f] # 0 /\ stutter'[f] = 0)
                <=> DueIn(stutter[f], s_samplePosition')]_vars

\* C33: a non-zero onset or release sample that a controller has stored in
\* CHOKE does not stay pending forever while audio blocks run: a later
\* block fires it and resets the field to 0, unless it was cancelled.  A
\* sample that still lies ahead of the last block of the behaviour is left
\* open.
C33_EventuallyConsumed ==
    \A f \in {"m_onsetAtSample", "m_releaseAtSample"} :
       (choke[f] # 0)
          ~> \/ choke[f] = 0
             \/ /\ s_samplePosition
                     = (StartBlocks + MaxBlocks) * AUDIO_BLOCK_SAMPLES
                /\ choke[f] >= s_samplePosition + AUDIO_BLOCK_SAMPLES

\* C34: once the handler that scheduled it has returned, the STUTTER
\* engine is never in a WAIT_* state whose scheduled sample is 0, a state
\* that no audio block leaves, whichever way the two stores of a schedule
\* call (the sample, then the state) interleave with the audio blocks.
C34_WaitHasSchedule ==
    ctl = <<>> =>
       /\ stutter.m_state = "WAIT_CAPTURE_START"
             => stutter.m_captureStartAtSample # 0
       /\ stutter.m_state = "WAIT_CAPTURE_END"
             => stutter.m_captureEndAtSample # 0
       /\ stutter.m_state = "WAIT_PLAYBACK_ONSET"
             => stutter.m_playbackOnsetAtSample # 0
       /\ stutter.m_state = "WAIT_PLAYBACK_LENGTH"
             => stutter.m_playbackLengthAtSample # 0

\* C35: CHOKE does not stay engaged forever once its button is released.
\* A release taken with QUANTIZED length leaves the disengagement to the
\* scheduled release: from there on, while audio blocks run and until the
\* next press or release, the effect is eventually disabled.  A release
\* sample that still lies ahead of the last block of the behaviour is left
\* open.
C35_ReleasedDisengages ==
    (hist.op = "absorbed")
       ~> \/ ~choke.m_isEnabled
          \/ ctl # <<>>
          \/ /\ s_samplePosition
                  = (StartBlocks + MaxBlocks) * AUDIO_BLOCK_SAMPLES
             /\ choke.m_releaseAtSample >= s_samplePosition + AUDIO_BLOCK_SAMPLES

C37_EnabledIffMuted ==
    ctl = <<>> => (choke.m_isEnabled <=> choke.m_targetGain = 0)

\* C38: a pass of updateEffectHandlers that follows another pass directly,
\* no engine having been engaged or disengaged in between, pushes no
\* update of the LEDs, the display or the last activated effect, also
\* with CHOKE and FREEZE both engaged
C38_EdgeTriggered ==
    (hist.op = "updateEffectHandlers" /\ hist.f = "idle") => hist.arg = <<>>

\* C39: a tick that the control loop pops is counted by incrementTick
\* exactly when it arrived while the transport was running, that is after
\* a START or CONTINUE and before the next STOP
C39_TicksWhileRunning ==
    hist.op = "popClock" => (hist.arg[2] <=> hist.arg[1])

\* C40: in a block, the sample of the right channel at an index is
\* multiplied by the same gain as the sample of the left channel at that
\* index, and the gain stays within [0, 1]
C40_OneGainPerFrame ==
    /\ m_currentGain \in 0..GAIN_ONE
    /\ (hist.op = "applyGainRamp" /\ hist.f = "R")
          => ramp.applied = ramp.left[hist.v + 1]

=============================================================================
